---- MODULE Spec2Model ----
(***************************************************************************)
(* Generation-request orchestration of the KIE Telegram bot (bot_kie.py):  *)
(* the ledger (balances, admin limits, blocked users, payments), the       *)
(* per-user session map, the conversation routing of main(), the           *)
(* confirmation handler and the background status poller.                  *)
(*                                                                         *)
(* Every amount of money is a Python float: an IEEE-754 binary64, with the *)
(* rounding of each operation the code performs on it (see "Floats").      *)
(***************************************************************************)
EXTENDS Integers, Naturals, Sequences, FiniteSets, TLC

(* ------------------------------------------------------------------ *)
(* Bounds of the model                                                  *)
(* ------------------------------------------------------------------ *)
MaxTasks == 1
MaxPayments == 2
MaxFaults == 1
MaxPolls == 1
MaxAsked == 3

(* ------------------------------------------------------------------ *)
(* Program constants                                                    *)
(* ------------------------------------------------------------------ *)
ADMIN_ID == 1
DeliveryLimit == 5
TierCount == 3
max_attempts == 60
StatusEvery == 6
DefaultAdminLimitRub == 100
UserMarkup == 2
MinTopupRub == 50
MaxTopupRub == 50000

OtherUser == 2
Users == {ADMIN_ID, OtherUser}

(* Conversation states of main()'s ConversationHandler *)
END == "END"
SELECTING_MODEL == "SELECTING_MODEL"
INPUTTING_PARAMS == "INPUTTING_PARAMS"
CONFIRMING_GENERATION == "CONFIRMING_GENERATION"
SELECTING_AMOUNT == "SELECTING_AMOUNT"
WAITING_PAYMENT_SCREENSHOT == "WAITING_PAYMENT_SCREENSHOT"
ADMIN_TEST_OCR == "ADMIN_TEST_OCR"

(* ------------------------------------------------------------------ *)
(* Model catalog (kie_models.py)                                        *)
(* ------------------------------------------------------------------ *)
PStr(n, req, maxlen) ==
    [name |-> n, type |-> "string", required |-> req, enum |-> <<>>,
     max_length |-> maxlen, default |-> "none"]
PEnum(n, req, vals, dflt) ==
    [name |-> n, type |-> "string", required |-> req, enum |-> vals,
     max_length |-> 0, default |-> dflt]
PBool(n, req, dflt) ==
    [name |-> n, type |-> "boolean", required |-> req, enum |-> <<>>,
     max_length |-> 0, default |-> dflt]
PArr(n, req) ==
    [name |-> n, type |-> "array", required |-> req, enum |-> <<>>,
     max_length |-> 0, default |-> "none"]

KIE_MODELS ==
    <<"z-image", "nano-banana-pro", "seedream/4.5-text-to-image",
      "seedream/4.5-edit", "sora-watermark-remover", "sora-2-text-to-video">>

ModelIds == {KIE_MODELS[i] : i \in DOMAIN KIE_MODELS}

input_params(m) ==
    CASE m = "z-image" ->
           <<PStr("prompt", TRUE, 1000),
             PEnum("aspect_ratio", TRUE,
                   <<"1:1", "4:3", "3:4", "16:9", "9:16">>, "1:1")>>
      [] m = "nano-banana-pro" ->
           <<PStr("prompt", TRUE, 10000),
             PArr("image_input", FALSE),
             PEnum("aspect_ratio", FALSE,
                   <<"1:1", "2:3", "3:2", "3:4", "4:3", "4:5", "5:4",
                     "9:16", "16:9", "21:9", "auto">>, "1:1"),
             PEnum("resolution", FALSE, <<"1K", "2K", "4K">>, "1K"),
             PEnum("output_format", FALSE, <<"png", "jpg">>, "png")>>
      [] m = "seedream/4.5-text-to-image" ->
           <<PStr("prompt", TRUE, 3000),
             PEnum("aspect_ratio", TRUE,
                   <<"1:1", "4:3", "3:4", "16:9", "9:16", "2:3", "3:2",
                     "21:9">>, "1:1"),
             PEnum("quality", TRUE, <<"basic", "high">>, "basic")>>
      [] m = "seedream/4.5-edit" ->
           <<PStr("prompt", TRUE, 3000),
             PArr("image_urls", TRUE),
             PEnum("aspect_ratio", TRUE,
                   <<"1:1", "4:3", "3:4", "16:9", "9:16", "2:3", "3:2",
                     "21:9">>, "1:1"),
             PEnum("quality", TRUE, <<"basic", "high">>, "basic")>>
      [] m = "sora-watermark-remover" ->
           <<PStr("video_url", TRUE, 500)>>
      [] m = "sora-2-text-to-video" ->
           <<PStr("prompt", TRUE, 10000),
             PEnum("aspect_ratio", FALSE, <<"portrait", "landscape">>,
                   "landscape"),
             PEnum("n_frames", FALSE, <<"10", "15">>, "10"),
             PBool("remove_watermark", FALSE, "True")>>
      [] OTHER -> <<>>

(* get_model_by_id: the catalog entry, or None for an id not in the list *)
get_model_by_id(m) == IF m \in ModelIds THEN m ELSE "None"

ParamNames(m) == {input_params(m)[i].name : i \in DOMAIN input_params(m)}

ParamInfo(m, n) ==
    IF n \in ParamNames(m)
    THEN LET i == CHOOSE j \in DOMAIN input_params(m) :
                      input_params(m)[j].name = n
         IN input_params(m)[i]
    ELSE PStr(n, FALSE, 0)

(* session['required']: the required parameter names, in schema order *)
RequiredList(m) ==
    SelectSeq([i \in DOMAIN input_params(m) |-> input_params(m)[i].name],
              LAMBDA n : ParamInfo(m, n).required)

SeqToSet(s) == {s[i] : i \in DOMAIN s}

(* ------------------------------------------------------------------ *)
(* Floats.  A finite non-negative binary64 value is the record          *)
(* [is |-> "num", m |-> mantissa, e |-> exponent] of the number          *)
(* m * 2^e, the mantissa a natural number below 2^MantissaBits written   *)
(* in MantissaLimbs digits of base LimbBase, lowest digit first, and     *)
(* odd (zero has mantissa 0 and exponent 0), so that equal numbers are   *)
(* equal records.  Sums, differences, products and quotients are         *)
(* computed exactly and rounded to MantissaBits significant bits, ties   *)
(* to even, at MinExponent for subnormal results and to inf from         *)
(* 2^MaxBits on, as the float operators do.  float('nan') and            *)
(* float('inf') are the records NaN and Inf.                             *)
(* ------------------------------------------------------------------ *)
MantissaBits == 53
LimbBits == 15
LimbBase == 32768
MantissaLimbs == 4
MinExponent == 0 - 1074
MaxBits == 1024
GuardBits == 3

LimbZeros(k) == [i \in 1..k |-> 0]

Zero == [is |-> "num", m |-> LimbZeros(MantissaLimbs), e |-> 0]
NaN == [is |-> "nan", m |-> LimbZeros(MantissaLimbs), e |-> 0]
Inf == [is |-> "inf", m |-> LimbZeros(MantissaLimbs), e |-> 0]

IsNaN(a) == a = NaN

(* the digits of a, padded or cut to k digits *)
Widen(a, k) == [i \in 1..k |-> IF i <= Len(a) THEN a[i] ELSE 0]

(* digit i of a, 0 outside a *)
DigitAt(a, i) == IF i \in DOMAIN a THEN a[i] ELSE 0

IsZero(a) == \A i \in DOMAIN a : a[i] = 0

RECURSIVE LimbAddFrom(_, _, _, _)
LimbAddFrom(a, b, i, carry) ==
    IF i > Len(a) THEN <<>>
    ELSE LET t == a[i] + b[i] + carry
         IN <<t % LimbBase>> \o LimbAddFrom(a, b, i + 1, t \div LimbBase)

(* a + b for sequences of one length; the sum fits that length *)
LimbAdd(a, b) == LimbAddFrom(a, b, 1, 0)

RECURSIVE LimbSubFrom(_, _, _, _)
LimbSubFrom(a, b, i, borrow) ==
    IF i > Len(a) THEN <<>>
    ELSE LET t == a[i] - b[i] - borrow
         IN <<t % LimbBase>> \o LimbSubFrom(a, b, i + 1, IF t < 0 THEN 1 ELSE 0)

(* a - b for a >= b *)
LimbSub(a, b) == LimbSubFrom(a, b, 1, 0)

RECURSIVE LimbGeFrom(_, _, _)
LimbGeFrom(a, b, i) ==
    IF i = 0 THEN TRUE
    ELSE IF a[i] # b[i] THEN a[i] > b[i]
    ELSE LimbGeFrom(a, b, i - 1)

(* a >= b for sequences of one length *)
LimbGe(a, b) == LimbGeFrom(a, b, Len(a))

(* a * 2^k and a \div 2^k *)
ShiftLeft(a, k) ==
    LET q == k \div LimbBits
        r == k % LimbBits
    IN [i \in 1..(Len(a) + q + 1) |->
           ((DigitAt(a, i - q) * 2^r) % LimbBase)
           + (DigitAt(a, i - q - 1) \div 2^(LimbBits - r))]

ShiftRight(a, k) ==
    LET q == k \div LimbBits
        r == k % LimbBits
    IN [i \in 1..Len(a) |->
           (DigitAt(a, i + q) \div 2^r)
           + ((DigitAt(a, i + q + 1) % 2^r) * 2^(LimbBits - r))]

(* the number of bits of a digit, and of a sequence of digits *)
DigitLen ==
    [d \in 0..(LimbBase - 1) |->
        CHOOSE k \in 0..LimbBits : d < 2^k /\ (k = 0 \/ d >= 2^(k - 1))]

Highest(set) == CHOOSE i \in set : \A j \in set : j <= i

HighBits(a, h) == LimbBits * (h - 1) + DigitLen[a[h]]

BitLen(a) ==
    IF IsZero(a) THEN 0
    ELSE HighBits(a, Highest({i \in DOMAIN a : a[i] # 0}))

(* the number of zero bits below the lowest set bit of a # 0 *)
TrailingZeros(a) ==
    LET l == CHOOSE i \in DOMAIN a : a[i] # 0 /\ \A j \in DOMAIN a : j < i => a[j] = 0
        z == CHOOSE k \in 0..(LimbBits - 1) : a[l] % 2^(k + 1) = 2^k
    IN LimbBits * (l - 1) + z

(* bit k of a, the lowest bit being bit 1 *)
BitAt(a, k) == (DigitAt(a, (k - 1) \div LimbBits + 1) \div 2^((k - 1) % LimbBits)) % 2

(* a with its k lowest bits cleared *)
ClearLow(a, k) ==
    [i \in DOMAIN a |->
        IF LimbBits * i <= k THEN 0
        ELSE IF LimbBits * (i - 1) >= k THEN a[i]
        ELSE a[i] - (a[i] % 2^(k - LimbBits * (i - 1)))]

(* 2^k in n digits *)
PowerOfTwo(k, n) ==
    [i \in 1..n |-> IF i = k \div LimbBits + 1 THEN 2^(k % LimbBits) ELSE 0]

(* n rounded to a multiple of 2^drop, the nearest, ties to even; n has a
   spare digit for the carry *)
RoundAt(n, drop) ==
    LET kept == ClearLow(n, drop)
        half == BitAt(n, drop) = 1
        sticky == ClearLow(n, drop - 1) # n
        up == half /\ (sticky \/ BitAt(n, drop + 1) = 1)
    IN IF up THEN LimbAdd(kept, PowerOfTwo(drop, Len(n))) ELSE kept

(* the float n * 2^e, for an n it represents exactly *)
Exact(n, e) ==
    IF IsZero(n) THEN Zero
    ELSE IF BitLen(n) + e > MaxBits THEN Inf
    ELSE LET z == TrailingZeros(n)
         IN [is |-> "num", m |-> Widen(ShiftRight(n, z), MantissaLimbs), e |-> e + z]

(* the float nearest to n * 2^e: round to nearest, ties to even, at
   MantissaBits significant bits and not below 2^MinExponent *)
RoundDrop(n, e, len, drop) ==
    IF drop <= 0 THEN Exact(n, e)
    ELSE IF drop > len THEN Zero                   \* below half of 2^drop
    ELSE Exact(RoundAt(Widen(n, Len(n) + 1), drop), e)

Larger(x, y) == IF x >= y THEN x ELSE y

RoundLen(n, e, len) == RoundDrop(n, e, len, Larger(len - MantissaBits, MinExponent - e))

f64_round(n, e) == RoundLen(n, e, BitLen(n))

(* b is below a quarter of the last bit of a, whatever their mantissas:
   a + b and a - b round to a *)
Negligible(b, a) ==
    a # Zero /\ (b = Zero \/ a.e - b.e > 2 * MantissaBits + LimbBits)

(* the mantissas of a and b at the smaller of their exponents, in digit
   sequences of one length with a spare digit *)
Padded(x, y, e, width) == [x |-> Widen(x, width), y |-> Widen(y, width), e |-> e]

AlignedAt(x, y, e) == Padded(x, y, e, Larger(Len(x), Len(y)) + 1)

AlignedTo(a, b, e) == AlignedAt(ShiftLeft(a.m, a.e - e), ShiftLeft(b.m, b.e - e), e)

Aligned(a, b) == AlignedTo(a, b, IF a.e <= b.e THEN a.e ELSE b.e)

AlignedGe(p) == LimbGe(p.x, p.y)
AlignedSum(p) == f64_round(LimbAdd(p.x, p.y), p.e)
AlignedDifference(p) == f64_round(LimbSub(p.x, p.y), p.e)

(* current >= amount *)
f64_ge(a, b) ==
    IF Negligible(b, a) THEN TRUE
    ELSE IF Negligible(a, b) THEN FALSE
    ELSE AlignedGe(Aligned(a, b))

(* current + amount *)
f64_add(a, b) ==
    IF Negligible(b, a) THEN a
    ELSE IF Negligible(a, b) THEN b
    ELSE AlignedSum(Aligned(a, b))

(* current - amount, for current >= amount *)
f64_sub(a, b) ==
    IF Negligible(b, a) THEN a
    ELSE AlignedDifference(Aligned(a, b))

(* a * d for one digit d *)
RECURSIVE LimbScaleFrom(_, _, _, _)
LimbScaleFrom(a, d, i, carry) ==
    IF i > Len(a) THEN <<carry>>
    ELSE LET t == a[i] * d + carry
         IN <<t % LimbBase>> \o LimbScaleFrom(a, d, i + 1, t \div LimbBase)

(* a * b in Len(a) + Len(b) digits, from digit i of b on *)
RECURSIVE LimbMulFrom(_, _, _)
LimbMulFrom(a, b, i) ==
    IF i > Len(b) THEN LimbZeros(Len(a) + Len(b))
    ELSE LimbAdd(LimbMulFrom(a, b, i + 1),
                 Widen(LimbZeros(i - 1) \o LimbScaleFrom(a, b[i], 1, 0),
                       Len(a) + Len(b)))

(* a * b *)
f64_mul(a, b) == f64_round(LimbMulFrom(a.m, b.m, 1), a.e + b.e)

(* 2 * a + bit *)
LimbDouble(a, bit) == LimbAdd(LimbAdd(a, a), Widen(<<bit>>, Len(a)))

(* long division by d, one bit of the dividend: st holds the remainder r
   and the quotient q so far *)
DivCompare(r2, d, q) ==
    IF LimbGe(r2, d)
    THEN [r |-> LimbSub(r2, d), q |-> LimbDouble(q, 1)]
    ELSE [r |-> r2, q |-> LimbDouble(q, 0)]

DivStep(bit, d, st) == DivCompare(LimbDouble(st.r, bit), d, st.q)

(* ... for the bits hi down to lo of the dividend n *)
RECURSIVE DivRange(_, _, _, _, _)
DivRange(n, d, hi, lo, st) ==
    IF hi = lo THEN DivStep(BitAt(n, hi), d, st)
    ELSE LET mid == (hi + lo) \div 2
             upper == DivRange(n, d, hi, mid + 1, st)
         IN IF upper.r = <<>> THEN upper ELSE DivRange(n, d, mid, lo, upper)

(* a / b for b > 0: the quotient of the mantissas, the dividend shifted so
   that the quotient has GuardBits bits more than a mantissa, its lowest
   bit set when a remainder is left, rounded *)
Sticky(st) ==
    IF IsZero(st.r) \/ st.q[1] % 2 = 1 THEN st.q ELSE [st.q EXCEPT ![1] = @ + 1]

DivDigits(n, d, w) ==
    Sticky(DivRange(n, Widen(d, w), BitLen(n), 1, [r |-> LimbZeros(w), q |-> LimbZeros(w)]))

DivShifted(n, d, e) == f64_round(DivDigits(n, d, Len(n) + 1), e)

DivBy(a, b, k) == DivShifted(ShiftLeft(a.m, k), b.m, a.e - b.e - k)

f64_div(a, b) ==
    IF a = Zero THEN Zero
    ELSE DivBy(a, b, MantissaBits + GuardBits + BitLen(b.m) - BitLen(a.m))

(* float(n) for a natural number n *)
Float(n) == Exact(<<n % LimbBase, ((n \div LimbBase) % LimbBase),
                    n \div (LimbBase * LimbBase)>>, 0)

(* the float a decimal literal n / d denotes: the nearest to its value *)
Dec(n, d) == f64_div(Float(n), Float(d))

Tenth == Dec(1, 10)

(* the float operators, with nan and inf as Python computes with them;
   a difference is taken of a minuend that is not the smaller one, a
   quotient of a divisor that is not zero, and x + 0.0 and x - 0.0 are x
   without any rounding *)
FAdd(a, b) ==
    IF IsNaN(a) \/ IsNaN(b) THEN NaN
    ELSE IF a = Inf \/ b = Inf THEN Inf
    ELSE IF b = Zero THEN a
    ELSE IF a = Zero THEN b
    ELSE f64_add(a, b)
FSub(a, b) ==
    IF IsNaN(a) \/ IsNaN(b) \/ (a = Inf /\ b = Inf) THEN NaN
    ELSE IF a = Inf THEN Inf
    ELSE IF b = Zero THEN a
    ELSE f64_sub(a, b)
FGe(a, b) ==
    /\ ~IsNaN(a) /\ ~IsNaN(b)
    /\ a = Inf \/ (b # Inf /\ f64_ge(a, b))
FLt(a, b) == ~IsNaN(a) /\ ~IsNaN(b) /\ ~FGe(a, b)
FGt(a, b) == FLt(b, a)
FDiv(a, b) ==
    IF IsNaN(a) \/ IsNaN(b) \/ (a = Inf /\ b = Inf) THEN NaN
    ELSE IF a = Inf THEN Inf
    ELSE IF b = Inf THEN Zero
    ELSE f64_div(a, b)
(* abs(a - b) *)
FAbsDiff(a, b) == IF FGe(a, b) THEN FSub(a, b) ELSE FSub(b, a)

(* ------------------------------------------------------------------ *)
(* Pricing engine                                                       *)
(* ------------------------------------------------------------------ *)
(* Parameter values are records: a scalar (text, enum literal, boolean
   literal) or a list of image URLs. *)
Scalar(s) == [s |-> s, n |-> 0]
ImgList(k) == [s |-> "list", n |-> k]

ParamGet(params, key, dflt) ==
    IF key \in DOMAIN params THEN params[key].s ELSE dflt

(* base cost in tenths of a credit *)
base_credits(model_id, params) ==
    CASE model_id = "z-image" -> 8
      [] model_id = "nano-banana-pro" ->
           IF ParamGet(params, "resolution", "1K") = "4K" THEN 240 ELSE 180
      [] model_id \in {"seedream/4.5-text-to-image", "seedream/4.5-edit"} -> 65
      [] model_id = "sora-watermark-remover" -> 100
      [] model_id = "sora-2-text-to-video" -> 300
      [] OTHER -> 10

CREDIT_TO_USD == Dec(5, 1000)
USD_TO_RUB == f64_div(Dec(695, 100), Dec(9, 100))

BaseTenths == {8, 240, 180, 65, 100, 300, 10}

(* price_rub = (base_credits * CREDIT_TO_USD) * USD_TO_RUB, for each base *)
price_rub_of ==
    [t \in BaseTenths |-> f64_mul(f64_mul(Dec(t, 10), CREDIT_TO_USD), USD_TO_RUB)]

(* price_rub *= 2 *)
price_rub_doubled == [t \in BaseTenths |-> f64_mul(price_rub_of[t], Float(UserMarkup))]

(* a price without the doubling for regular users *)
calculate_price_rub_flat(model_id, params, is_admin) ==
    price_rub_of[base_credits(model_id, params)]

calculate_price_rub(model_id, params, is_admin) ==
    IF ~is_admin THEN price_rub_doubled[base_credits(model_id, params)]
    ELSE price_rub_of[base_credits(model_id, params)]

(* n \div d and n % d for a small d: long division, one digit of n; st
   holds the remainder r and the quotient q so far, highest digit first *)
DivSmallStep(a, d, i, st) ==
    LET t == st.r * LimbBase + a[i]
    IN [q |-> Append(st.q, t \div d), r |-> t % d]

(* ... for the digits hi down to lo of n *)
RECURSIVE DivSmallRange(_, _, _, _, _)
DivSmallRange(a, d, hi, lo, st) ==
    IF hi = lo THEN DivSmallStep(a, d, hi, st)
    ELSE LET mid == (hi + lo) \div 2
             upper == DivSmallRange(a, d, hi, mid + 1, st)
         IN IF upper.r < 0 THEN upper ELSE DivSmallRange(a, d, mid, lo, upper)

Reverse(s) == [i \in 1..Len(s) |-> s[Len(s) + 1 - i]]

DivSmall(a, d) ==
    LET st == DivSmallRange(a, d, Len(a), 1, [q |-> <<>>, r |-> 0])
    IN [q |-> Reverse(st.q), r |-> st.r]

(* Decimal text.  A natural number is turned into digits of base
   DecimalGroup, four decimal digits each, lowest first. *)
DecimalGroup == 10000
GroupBits == 13

DecimalDigit == <<"0", "1", "2", "3", "4", "5", "6", "7", "8", "9">>

(* g * LimbBase + c, one digit of g; st holds the carry c and the digits s
   so far *)
GroupStep(g, i, st) ==
    LET t == g[i] * LimbBase + st.c
    IN [s |-> Append(st.s, t % DecimalGroup), c |-> t \div DecimalGroup]

RECURSIVE GroupRange(_, _, _, _)
GroupRange(g, lo, hi, st) ==
    IF lo = hi THEN GroupStep(g, lo, st)
    ELSE LET mid == (lo + hi) \div 2
             lower == GroupRange(g, lo, mid, st)
         IN IF lower.c < 0 THEN lower ELSE GroupRange(g, mid + 1, hi, lower)

(* the digits of base DecimalGroup of the digits hi down to lo of a, on
   top of those in g *)
RECURSIVE DecimalRange(_, _, _, _)
DecimalRange(a, hi, lo, g) ==
    IF hi = lo THEN GroupRange(g, 1, Len(g), [s |-> <<>>, c |-> a[hi]]).s
    ELSE LET mid == (hi + lo) \div 2
             upper == DecimalRange(a, hi, mid + 1, g)
         IN IF upper = <<>> THEN upper ELSE DecimalRange(a, mid, lo, upper)

DecimalGroups(a) ==
    DecimalRange(a, Len(a), 1, LimbZeros(((LimbBits * Len(a)) \div GroupBits) + 1))

(* str(r) for r < DecimalGroup, and the same with leading zeros *)
RECURSIVE DecimalOf(_)
DecimalOf(r) ==
    IF r < 10 THEN DecimalDigit[r + 1]
    ELSE DecimalOf(r \div 10) \o DecimalDigit[(r % 10) + 1]

DecimalPadded(r) ==
    DecimalDigit[(r \div 1000) + 1] \o DecimalDigit[((r \div 100) % 10) + 1]
        \o DecimalDigit[((r \div 10) % 10) + 1] \o DecimalDigit[(r % 10) + 1]

RECURSIVE PaddedRange(_, _, _)
PaddedRange(g, hi, lo) ==
    IF hi < lo THEN ""
    ELSE IF hi = lo THEN DecimalPadded(g[hi])
    ELSE LET mid == (hi + lo) \div 2
         IN PaddedRange(g, hi, mid + 1) \o PaddedRange(g, mid, lo)

(* str(n) for a natural number n in digits of base LimbBase *)
Decimal(n) ==
    LET g == DecimalGroups(n)
        h == IF IsZero(g) THEN 1
             ELSE CHOOSE i \in DOMAIN g : g[i] # 0 /\ \A j \in DOMAIN g : j > i => g[j] = 0
    IN DecimalOf(g[h]) \o PaddedRange(g, h - 1, 1)

(* the number of kopecks nearest to the float price, ties to even *)
Kopecks(price) ==
    LET p == LimbScaleFrom(price.m, 100, 1, 0)
        drop == 0 - price.e
    IN IF price.e >= 0 THEN ShiftLeft(p, price.e)
       ELSE IF drop > BitLen(p) THEN LimbZeros(1)          \* below half a kopeck
       ELSE ShiftRight(RoundAt(Widen(p, Len(p) + 1), drop), drop)

(* f"{round(price, 2):.2f}": the decimal, at two places, nearest to the
   float, ties to even *)
price_str(price) ==
    IF IsNaN(price) THEN "nan"
    ELSE IF price = Inf THEN "inf"
    ELSE LET k == DivSmall(Kopecks(price), 100)
         IN Decimal(k.q) \o "." \o DecimalDigit[(k.r \div 10) + 1]
                         \o DecimalDigit[(k.r % 10) + 1]

(* the text of a price: which of the two templates, and the number it
   holds *)
format_price_rub(price, is_admin) ==
    [unlimited |-> is_admin, price_str |-> price_str(price)]

(* ------------------------------------------------------------------ *)
(* State                                                                *)
(* ------------------------------------------------------------------ *)
VARIABLES
    user_sessions,  \* user id -> session dict (partial function)
    conv,           \* user id -> state of the ConversationHandler
    balances,       \* user_balances.json: user id -> balance (absent = 0)
    admin_limits,   \* admin_limits.json: user id -> [limit, spent]
    blocked,        \* blocked_users.json: the set of blocked ids
    payments,       \* payments.json: the records, in id order
    pollers,        \* task id -> the poll_task_status coroutine of the task
    inflight,       \* the handler suspended at an await, with its locals
    reply,          \* what the last handler run told the user, or the
                    \* buttons of the message it sent
    faults          \* the steps so far in which a send raised, a result could
                    \* not be parsed or a file access failed, up to MaxFaults

vars == <<user_sessions, conv, balances, admin_limits, blocked, payments,
          pollers, inflight, reply, faults>>

ledger == <<balances, admin_limits, blocked, payments>>

EmptyFn == [x \in {} |-> 0]
(* at is the await the handler is suspended in: kie.create_task of
   confirm_generation (price is its local price), query.edit_message_text
   of the select_model branch (model_id is its local), or the sends and
   downloads of the payment-screenshot branch before add_payment
   ("screenshot") and analysis_msg.delete() after it ("analysis_msg");
   amount and ocr are that branch's locals. *)
NoInflight ==
    [user |-> 0, price |-> Zero, at |-> "none", model_id |-> "absent",
     amount |-> Zero, ocr |-> FALSE]

(* A session dict.  A key the dict does not hold has the value "absent"
   (strings), -1 (image lists, by length) or 0 (amount, task id); the
   Python value None is the string "None".  asked and submitted are
   bookkeeping: the number of prompts start_next_parameter has sent since
   the model was selected, counted up to MaxAsked, and whether
   kie.create_task has returned a task for the parameters collected since
   then. *)
EmptySession ==
    [model_id |-> "absent", has_params |-> FALSE, params |-> EmptyFn,
     current_param |-> "absent", waiting_for |-> "absent",
     has_image_input |-> "absent", image_input |-> -1, image_urls |-> -1,
     topup_amount |-> Zero, task_id |-> 0, admin_user_mode |-> FALSE,
     asked |-> 0, submitted |-> FALSE]

HasSession(sessions, u) == u \in DOMAIN sessions

SessionOf(sessions, u) == IF HasSession(sessions, u) THEN sessions[u] ELSE EmptySession

PutSession(sessions, u, s) ==
    [v \in DOMAIN sessions \cup {u} |-> IF v = u THEN s ELSE sessions[v]]

(* del user_sessions[user_id] left out *)
DelSession_kept(sessions, u) == sessions

DelSession(sessions, u) == [v \in DOMAIN sessions \ {u} |-> sessions[v]]

SetParam(s, key, val) ==
    [s EXCEPT !.params =
        [k \in DOMAIN s.params \cup {key} |-> IF k = key THEN val ELSE s.params[k]]]

(* ------------------------------------------------------------------ *)
(* Ledger functions                                                     *)
(* ------------------------------------------------------------------ *)
is_admin(limits, user_id) == user_id = ADMIN_ID \/ user_id \in DOMAIN limits

get_admin_spent(limits, user_id) ==
    IF user_id \in DOMAIN limits THEN limits[user_id].spent ELSE Zero

get_admin_limit(limits, user_id) ==
    IF user_id = ADMIN_ID THEN Inf
    ELSE IF user_id \in DOMAIN limits THEN limits[user_id].limit
    ELSE Float(DefaultAdminLimitRub)

add_admin_spent(limits, user_id, amount) ==
    IF user_id = ADMIN_ID THEN limits
    ELSE IF user_id \notin DOMAIN limits THEN limits
    ELSE [limits EXCEPT ![user_id].spent = FAdd(@, amount)]

(* max(0.0, limit - spent), or inf for the unlimited admin *)
get_admin_remaining(limits, user_id) ==
    LET limit == get_admin_limit(limits, user_id)
        spent == get_admin_spent(limits, user_id)
    IN IF limit = Inf THEN Inf
       ELSE IF FGe(limit, spent) THEN FSub(limit, spent)
       ELSE Zero

(* remaining < price *)
RemainingBelow(limits, user_id, price) ==
    FLt(get_admin_remaining(limits, user_id), price)

get_is_admin(limits, sessions, user_id) ==
    IF is_admin(limits, user_id)
    THEN ~(HasSession(sessions, user_id) /\ sessions[user_id].admin_user_mode)
    ELSE FALSE

get_user_balance(bal, user_id) == bal[user_id]

set_user_balance(bal, user_id, amount) == [bal EXCEPT ![user_id] = amount]

(* a credit computed from a balance read before an earlier update *)
add_user_balance_stale(bal, user_id, amount) == set_user_balance(bal, user_id, amount)

add_user_balance(bal, user_id, amount) ==
    set_user_balance(bal, user_id, FAdd(get_user_balance(bal, user_id), amount))

(* the value subtract_user_balance returns *)
subtract_succeeds(bal, user_id, amount) == FGe(get_user_balance(bal, user_id), amount)

(* the ledger subtract_user_balance leaves *)
subtract_user_balance(bal, user_id, amount) ==
    IF FGe(get_user_balance(bal, user_id), amount)
    THEN set_user_balance(bal, user_id, FSub(get_user_balance(bal, user_id), amount))
    ELSE bal

is_user_blocked(blk, user_id) == user_id \in blk

add_payment(pay, user_id, amount) ==
    Append(pay, [id |-> Len(pay) + 1, user_id |-> user_id, amount |-> amount,
                 status |-> "completed"])

(* ------------------------------------------------------------------ *)
(* Initial state: the process has just started (no session, no          *)
(* conversation, no poller); the ledger files hold what earlier runs    *)
(* left in them.                                                        *)
(* ------------------------------------------------------------------ *)
(* the balance after n debits of one price, and the spending after n charges *)
RECURSIVE Debited(_, _, _)
Debited(balance, price, n) ==
    IF n = 0 THEN balance ELSE Debited(FSub(balance, price), price, n - 1)

RECURSIVE Spent(_, _, _)
Spent(spent, price, n) ==
    IF n = 0 THEN spent ELSE Spent(FAdd(spent, price), price, n - 1)

(* 50 RUB topped up, six watermark removals and four images bought at the
   user price: what is left pays one more image, not two *)
LedgerRegularLow ==
    [bal |-> Debited(Debited(Float(MinTopupRub),
                             calculate_price_rub("sora-watermark-remover", EmptyFn, FALSE), 6),
                     calculate_price_rub("z-image", EmptyFn, FALSE), 4),
     lim |-> EmptyFn,
     pay |-> <<[id |-> 1, user_id |-> OtherUser, amount |-> Float(MinTopupRub),
                status |-> "completed"]>>]

LedgerRegularEmpty == [bal |-> Zero, lim |-> EmptyFn, pay |-> <<>>]

LimitedAdminEntry(spent) ==
    [u \in {OtherUser} |-> [limit |-> Float(DefaultAdminLimitRub), spent |-> spent]]

LedgerAdminFresh == [bal |-> Zero, lim |-> LimitedAdminEntry(Zero), pay |-> <<>>]

(* a limited admin after eight videos, one watermark removal and ten
   images: what remains of the limit pays one more image, not two *)
LedgerAdminNearLimit ==
    [bal |-> Zero,
     lim |-> LimitedAdminEntry(
                Spent(Spent(Spent(Zero,
                                  calculate_price_rub("sora-2-text-to-video", EmptyFn, TRUE), 8),
                            calculate_price_rub("sora-watermark-remover", EmptyFn, TRUE), 1),
                      calculate_price_rub("z-image", EmptyFn, TRUE), 10)),
     pay |-> <<>>]

InitLedgers ==
    {LedgerRegularEmpty, LedgerRegularLow, LedgerAdminFresh, LedgerAdminNearLimit}

Init ==
    /\ user_sessions = EmptyFn
    /\ \E u \in Users, l \in InitLedgers :
          /\ u = ADMIN_ID => l = LedgerRegularEmpty
          /\ conv = [v \in {u} |-> END]
          /\ balances = [v \in Users |-> IF v = OtherUser THEN l.bal ELSE Zero]
          /\ admin_limits = l.lim
          /\ payments = l.pay
    /\ blocked = {}
    /\ pollers = EmptyFn
    /\ inflight = NoInflight
    /\ reply = "none"
    /\ faults = 0

(* Updates are handled one at a time (Application without
   concurrent_updates): no handler starts while another is suspended at
   an await.  Background pollers are asyncio tasks and run at any await. *)
Idle == inflight = NoInflight

Truthy(v) == v \notin {"absent", "None"}

(* ------------------------------------------------------------------ *)
(* Parameter form                                                       *)
(* ------------------------------------------------------------------ *)
SkippedParams == {"prompt", "image_input", "image_urls"}

(* required parameters start_next_parameter would still ask for *)
Pending(s) ==
    SelectSeq(RequiredList(s.model_id),
              LAMBDA n : n \notin SkippedParams /\ n \notin DOMAIN s.params)

(* missing of set_param: every required name without a value *)
MissingAll(s) ==
    SelectSeq(RequiredList(s.model_id), LAMBDA n : n \notin DOMAIN s.params)

start_next_parameter(s) ==
    IF Pending(s) = <<>>
    THEN [session |-> s, result |-> "None"]
    ELSE LET param_name == Head(Pending(s))
             param_info == ParamInfo(s.model_id, param_name)
             s1 == [s EXCEPT !.current_param = param_name,
                             !.asked = IF @ < MaxAsked THEN @ + 1 ELSE @]
         IN IF param_info.type = "boolean" \/ Len(param_info.enum) > 0
            THEN [session |-> s1, result |-> INPUTTING_PARAMS]
            ELSE [session |-> [s1 EXCEPT !.waiting_for = param_name],
                  result |-> INPUTTING_PARAMS]

(* int(user_balance / min_price), taken when user_balance >= min_price,
   raises OverflowError: the quotient is inf (a quotient of mantissas is
   below 2^MantissaBits, so that only operands with exponents that far
   apart are divided) *)
CountOverflows(user_balance, min_price) ==
    /\ \/ user_balance = Inf
       \/ /\ ~IsNaN(user_balance)
          /\ user_balance.e - min_price.e >= MaxBits - MantissaBits
          /\ FDiv(user_balance, min_price) = Inf
    /\ FGe(user_balance, min_price)

DefaultParams(model_id) ==
    CASE model_id = "nano-banana-pro" -> [k \in {"resolution"} |-> Scalar("1K")]
      [] model_id \in {"seedream/4.5-text-to-image", "seedream/4.5-edit"} ->
           [k \in {"quality"} |-> Scalar("basic")]
      [] OTHER -> EmptyFn

(* button_callback, data = "select_model:<model_id>" *)
select_model(u, model_id) ==
    /\ Idle
    /\ reply' = "none"
    /\ conv[u] \in {END, SELECTING_MODEL}
    /\ LET is_adm == get_is_admin(admin_limits, user_sessions, u)
           min_price == calculate_price_rub(model_id, DefaultParams(model_id), is_adm)
           s0 == [SessionOf(user_sessions, u) EXCEPT
                      !.model_id = model_id, !.has_params = TRUE,
                      !.params = EmptyFn, !.current_param = "None",
                      !.asked = 0, !.submitted = FALSE]
       IN IF get_model_by_id(model_id) = "None"
          THEN UNCHANGED <<user_sessions, conv, inflight>>
          ELSE IF ~is_adm /\ CountOverflows(get_user_balance(balances, u), min_price)
          THEN UNCHANGED <<user_sessions, conv, inflight>>  \* OverflowError
          ELSE IF ~is_adm /\ ~FGe(get_user_balance(balances, u), min_price)
          THEN /\ conv' = [conv EXCEPT ![u] = END]
               /\ UNCHANGED <<user_sessions, inflight>>
          ELSE IF "prompt" \in ParamNames(model_id)
          THEN /\ user_sessions' = PutSession(user_sessions, u, s0)
               /\ inflight' = [NoInflight EXCEPT !.user = u, !.at = "select_model",
                                                 !.model_id = model_id]
               /\ UNCHANGED conv
          ELSE /\ user_sessions' = PutSession(user_sessions, u,
                                              start_next_parameter(s0).session)
               /\ conv' = [conv EXCEPT ![u] = INPUTTING_PARAMS]
               /\ UNCHANGED inflight
    /\ UNCHANGED <<ledger, pollers, faults>>

(* select_model after its await of query.edit_message_text: the writes of
   user_sessions[user_id][...] raise KeyError when a poller has deleted the
   session meanwhile, and the conversation keeps its state *)
select_model_prompt ==
    /\ inflight.at = "select_model"
    /\ LET u == inflight.user
           has_image_input ==
               ParamNames(inflight.model_id) \cap {"image_input", "image_urls"} # {}
       IN IF HasSession(user_sessions, u)
          THEN /\ user_sessions' = PutSession(user_sessions, u,
                      [user_sessions[u] EXCEPT
                          !.current_param = "prompt",
                          !.waiting_for = "prompt",
                          !.has_image_input = IF has_image_input THEN "True" ELSE "False"])
               /\ conv' = [conv EXCEPT ![u] = INPUTTING_PARAMS]
          ELSE UNCHANGED <<user_sessions, conv>>            \* KeyError
    /\ inflight' = NoInflight
    /\ UNCHANGED <<ledger, pollers, reply, faults>>

(* The module's saved_generations: created empty and assigned nowhere. *)
saved_generations == EmptyFn

(* button_callback, data = "generate_again": an entry point and a handler
   of every state *)
generate_again(u) ==
    /\ Idle
    /\ IF u \notin DOMAIN saved_generations
       THEN /\ reply' = "no_saved_generation"
            /\ conv' = [conv EXCEPT ![u] = END]
            /\ UNCHANGED user_sessions
       ELSE LET model_id == saved_generations[u].model_id
                is_adm == get_is_admin(admin_limits, user_sessions, u)
                min_price == calculate_price_rub(model_id, DefaultParams(model_id), is_adm)
                s0 == [SessionOf(user_sessions, u) EXCEPT
                          !.model_id = model_id, !.has_params = TRUE,
                          !.params = EmptyFn]
                s1 == [s0 EXCEPT !.current_param = "None", !.asked = 0,
                                 !.submitted = FALSE]
                s2 == IF "prompt" \in ParamNames(model_id)
                      THEN [s1 EXCEPT !.current_param = "prompt",
                                      !.waiting_for = "prompt",
                                      !.has_image_input =
                                          IF ParamNames(model_id) \cap {"image_input", "image_urls"} # {}
                                          THEN "True" ELSE "False"]
                      ELSE start_next_parameter(s1).session
            IN /\ reply' = "none"
               /\ IF ~is_adm /\ CountOverflows(get_user_balance(balances, u), min_price)
                  THEN /\ user_sessions' = PutSession(user_sessions, u, s0)
                       /\ UNCHANGED conv                     \* OverflowError
                  ELSE IF ~is_adm /\ ~FGe(get_user_balance(balances, u), min_price)
                  THEN /\ user_sessions' = PutSession(user_sessions, u, s0)
                       /\ conv' = [conv EXCEPT ![u] = END]
                  ELSE /\ user_sessions' = PutSession(user_sessions, u, s2)
                       /\ conv' = [conv EXCEPT ![u] = INPUTTING_PARAMS]
    /\ UNCHANGED <<ledger, pollers, inflight, faults>>

(* start_generation: the /generate command, an entry point of the
   conversation.  api_key is FALSE when kie.api_key is not configured and
   the handler returns without a state. *)
start_generation(u, api_key) ==
    /\ Idle
    /\ reply' = "none"
    /\ conv[u] = END
    /\ conv' = IF api_key THEN [conv EXCEPT ![u] = SELECTING_MODEL] ELSE conv
    /\ UNCHANGED <<user_sessions, ledger, pollers, inflight, faults>>

(* button_callback, data = "category:<category>", and data = "show_models"
   or "all_models" (category "all"), which lists the whole catalog.  The
   catalog has two categories, here by their English names: "Video" for
   the two sora models and "Photo" for the others. *)
show_models(u, category) ==
    /\ Idle
    /\ reply' = "none"
    /\ conv[u] \in {END, SELECTING_MODEL}
    /\ LET is_adm == get_is_admin(admin_limits, user_sessions, u)
           video == {"sora-watermark-remover", "sora-2-text-to-video"}
           models == CASE category = "all" -> ModelIds
                       [] category = "Video" -> video
                       [] category = "Photo" -> ModelIds \ video
                       [] OTHER -> {}
           default_params(m) ==
               IF m = "nano-banana-pro" THEN [k \in {"resolution"} |-> Scalar("1K")]
               ELSE EmptyFn
       IN IF models = {}
          THEN conv' = [conv EXCEPT ![u] = END]
          ELSE IF ~is_adm /\ \E m \in models :
                           CountOverflows(get_user_balance(balances, u),
                                          calculate_price_rub(m, default_params(m), FALSE))
          THEN UNCHANGED conv                                 \* OverflowError
          ELSE conv' = [conv EXCEPT ![u] = SELECTING_MODEL]
    /\ UNCHANGED <<user_sessions, ledger, pollers, inflight, faults>>

InConversation(u) == conv[u] # END

(* button_callback, data = "back_to_menu" *)
back_to_menu(u) ==
    /\ Idle
    /\ reply' = "none"
    /\ conv' = [conv EXCEPT ![u] = END]
    /\ UNCHANGED <<user_sessions, ledger, pollers, inflight, faults>>

(* button_callback, data = "cancel", with every session dropped instead
   of the caller's *)
button_cancel_all(u) ==
    /\ Idle
    /\ reply' = "cancelled"
    /\ InConversation(u)
    /\ user_sessions' = EmptyFn
    /\ conv' = [conv EXCEPT ![u] = END]
    /\ UNCHANGED <<ledger, pollers, inflight, faults>>

(* button_callback, data = "cancel" (a handler of every state) *)
button_cancel(u) ==
    /\ Idle
    /\ reply' = "cancelled"
    /\ InConversation(u)
    /\ user_sessions' = DelSession(user_sessions, u)
    /\ conv' = [conv EXCEPT ![u] = END]
    /\ UNCHANGED <<ledger, pollers, inflight, faults>>

(* cancel: the /cancel fallback *)
cancel(u) ==
    /\ Idle
    /\ reply' = "cancelled"
    /\ InConversation(u)
    /\ user_sessions' = DelSession(user_sessions, u)
    /\ conv' = [conv EXCEPT ![u] = END]
    /\ UNCHANGED <<ledger, pollers, inflight, faults>>

(* button_callback, data = "set_param:<param_name>:<param_value>" *)
(* param_value.lower(), for the spellings a callback can carry *)
Lower(text) ==
    CASE text \in {"true", "True", "TRUE"} -> "true"
      [] text \in {"false", "False", "FALSE"} -> "false"
      [] OTHER -> text

BoolValue(param_value, default) ==
    IF Lower(param_value) = "true" THEN "True"
    ELSE IF Lower(param_value) = "false" THEN "False"
    ELSE default

set_param(u, param_name, param_value) ==
    /\ Idle
    /\ reply' = "none"
    /\ conv[u] = INPUTTING_PARAMS
    /\ IF ~HasSession(user_sessions, u)
       THEN /\ conv' = [conv EXCEPT ![u] = END]
            /\ UNCHANGED user_sessions
       ELSE LET session == user_sessions[u]
                param_info == ParamInfo(session.model_id, param_name)
                value == IF param_info.type = "boolean"
                         THEN BoolValue(param_value, param_info.default)
                         ELSE param_value
                s1 == [SetParam(session, param_name, Scalar(value))
                          EXCEPT !.current_param = "None"]
                next == start_next_parameter(s1)
            IN IF ~session.has_params
               THEN UNCHANGED <<user_sessions, conv>>       \* KeyError
               ELSE IF MissingAll(s1) # <<>>
               THEN /\ user_sessions' = PutSession(user_sessions, u, next.session)
                    /\ conv' = [conv EXCEPT ![u] =
                                   IF next.result # "None" THEN next.result ELSE @]
               ELSE /\ user_sessions' = PutSession(user_sessions, u, s1)
                    /\ conv' = [conv EXCEPT ![u] = CONFIRMING_GENERATION]
    /\ UNCHANGED <<ledger, pollers, inflight, faults>>

(* Texts a user may send: the token stands for a message of TextLen
   characters; AmountOf is float(text.replace(',', '.')), and NotAFloat
   tells that float() raises ValueError. *)
TextLen(text) == IF text = "long-text" THEN 10001 ELSE Len(text)

AmountOf(text) ==
    CASE text = "75" -> Float(75)
      [] text = "10" -> Float(10)
      [] text = "50001" -> Float(50001)
      [] text = "nan" -> NaN
      [] OTHER -> Zero

NotAFloat(text) == text \notin {"75", "10", "50001", "nan"}

(* the states whose handlers route a text, and a photo, to input_parameters *)
TextStates ==
    {INPUTTING_PARAMS, SELECTING_AMOUNT, WAITING_PAYMENT_SCREENSHOT, ADMIN_TEST_OCR}

PhotoStates == {INPUTTING_PARAMS, WAITING_PAYMENT_SCREENSHOT, ADMIN_TEST_OCR}

(* the first test of input_parameters: the main admin's OCR test is on *)
OcrTestAwaited(sessions, u) ==
    u = ADMIN_ID /\ HasSession(sessions, u) /\ sessions[u].waiting_for = "admin_test_ocr"

(* button_callback, data = "admin_test_ocr" (an entry point); ocr_available
   is OCR_AVAILABLE and PIL_AVAILABLE *)
admin_test_ocr(u, ocr_available) ==
    /\ Idle
    /\ reply' = "none"
    /\ conv[u] = END
    /\ IF u # ADMIN_ID
       THEN UNCHANGED <<user_sessions, conv>>
       ELSE IF ~ocr_available
       THEN /\ conv' = [conv EXCEPT ![u] = END]
            /\ UNCHANGED user_sessions
       ELSE /\ user_sessions' = PutSession(user_sessions, u,
                   [EmptySession EXCEPT !.waiting_for = "admin_test_ocr"])
            /\ conv' = [conv EXCEPT ![u] = ADMIN_TEST_OCR]
    /\ UNCHANGED <<ledger, pollers, inflight, faults>>

(* input_parameters, a text message *)
input_text(u, text) ==
    /\ Idle
    /\ conv[u] \in TextStates
    /\ LET session == SessionOf(user_sessions, u)
           waiting_for == session.waiting_for
           current_param == IF session.current_param = "absent"
                            THEN waiting_for ELSE session.current_param
           max_length == ParamInfo(session.model_id, current_param).max_length
           s1 == [SetParam(session, current_param, Scalar(text))
                     EXCEPT !.waiting_for = "None", !.current_param = "None"]
           next == start_next_parameter(s1)
           amount == AmountOf(text)
       IN IF OcrTestAwaited(user_sessions, u)
          THEN /\ conv' = [conv EXCEPT ![u] = ADMIN_TEST_OCR]
               /\ UNCHANGED user_sessions
               /\ reply' = "none"
          ELSE IF HasSession(user_sessions, u) /\ waiting_for = "payment_screenshot"
          THEN /\ conv' = [conv EXCEPT ![u] = WAITING_PAYMENT_SCREENSHOT]
               /\ UNCHANGED user_sessions
               /\ reply' = "none"
          ELSE IF HasSession(user_sessions, u) /\ waiting_for = "topup_amount_input"
          THEN IF NotAFloat(text) \/ FLt(amount, Float(MinTopupRub))
                  \/ FGt(amount, Float(MaxTopupRub))
               THEN /\ conv' = [conv EXCEPT ![u] = SELECTING_AMOUNT]
                    /\ UNCHANGED user_sessions
                    /\ reply' = "none"
               ELSE /\ user_sessions' = PutSession(user_sessions, u,
                          [session EXCEPT !.topup_amount = amount,
                                          !.waiting_for = "payment_screenshot"])
                    /\ conv' = [conv EXCEPT ![u] = WAITING_PAYMENT_SCREENSHOT]
                    /\ reply' = "none"
          ELSE IF ~HasSession(user_sessions, u)
          THEN /\ conv' = [conv EXCEPT ![u] = END]
               /\ UNCHANGED user_sessions
               /\ reply' = "none"
          ELSE IF ~Truthy(waiting_for)
          THEN /\ conv' = [conv EXCEPT ![u] = END]
               /\ UNCHANGED user_sessions
               /\ reply' = "none"
          ELSE IF max_length > 0 /\ TextLen(text) > max_length
          THEN /\ conv' = [conv EXCEPT ![u] = INPUTTING_PARAMS]
               /\ UNCHANGED user_sessions
               /\ reply' = "none"
          ELSE IF ~session.has_params
          THEN /\ reply' = "none"                           \* KeyError
               /\ UNCHANGED <<user_sessions, conv>>
          ELSE IF current_param = "prompt" /\ session.has_image_input = "True"
          THEN /\ user_sessions' = PutSession(user_sessions, u, s1)
               /\ conv' = [conv EXCEPT ![u] = INPUTTING_PARAMS]
               /\ reply' = "image_question"
          ELSE IF Pending(s1) # <<>>
          THEN /\ user_sessions' = PutSession(user_sessions, u, next.session)
               /\ conv' = [conv EXCEPT ![u] = next.result]
               /\ reply' = "none"
          ELSE /\ user_sessions' = PutSession(user_sessions, u, s1)
               /\ conv' = [conv EXCEPT ![u] = CONFIRMING_GENERATION]
               /\ reply' = "none"
    /\ UNCHANGED <<ledger, pollers, inflight, faults>>

(* button_callback, data = "topup_balance" *)
topup_balance(u) ==
    /\ Idle
    /\ reply' = "none"
    /\ conv[u] = END
    /\ conv' = [conv EXCEPT ![u] =
                   IF is_user_blocked(blocked, u) THEN END ELSE SELECTING_AMOUNT]
    /\ UNCHANGED <<user_sessions, ledger, pollers, inflight, faults>>

(* button_callback, data = "topup_amount:<amount>" *)
topup_amount(u, amount) ==
    /\ Idle
    /\ reply' = "none"
    /\ conv[u] \in {END, SELECTING_AMOUNT}
    /\ user_sessions' = PutSession(user_sessions, u,
           [EmptySession EXCEPT !.topup_amount = amount,
                                !.waiting_for = "payment_screenshot"])
    /\ conv' = [conv EXCEPT ![u] = WAITING_PAYMENT_SCREENSHOT]
    /\ UNCHANGED <<ledger, pollers, inflight, faults>>

(* button_callback, data = "topup_custom" *)
topup_custom(u) ==
    /\ Idle
    /\ reply' = "none"
    /\ conv[u] \in {END, SELECTING_AMOUNT}
    /\ user_sessions' = PutSession(user_sessions, u,
           [EmptySession EXCEPT !.waiting_for = "topup_amount_input"])
    /\ conv' = [conv EXCEPT ![u] = SELECTING_AMOUNT]
    /\ UNCHANGED <<ledger, pollers, inflight, faults>>

(* input_parameters, a photo.  outcome is what happened to the file: for
   a payment screenshot the verdict of the check ("valid", "skipped" when
   OCR is not installed and the analysis is left out, "invalid", or
   "error" when the download or the analysis raised); for a parameter
   image "valid" when it was uploaded, and "unsent" when it was uploaded
   and appended to the list and the reply that reports it then raised (the
   loading message is deleted by then, so the bot's latest message is the
   one before); for the OCR test "error" when the download or the recognition raised. *)
ImageParams == {"image_input", "image_urls"}
MaxImages == 8

ImageCount(session, name) ==
    LET n == IF name = "image_urls" THEN session.image_urls ELSE session.image_input
    IN IF n < 0 THEN 0 ELSE n

SetImageCount(session, name, n) ==
    IF name = "image_urls" THEN [session EXCEPT !.image_urls = n]
    ELSE [session EXCEPT !.image_input = n]

(* a verdict that accepts every screenshot *)
analysis_valid_always(outcome) == TRUE

(* analysis.get('valid', False), and True when the analysis is skipped *)
analysis_valid(outcome) == outcome \in {"valid", "skipped"}

(* The branch of an accepted payment screenshot has read the session and
   the amount and is suspended at its sends and downloads: add_payment
   follows. *)
input_photo(u, outcome) ==
    /\ Idle
    /\ conv[u] \in PhotoStates
    /\ outcome = "unsent" =>
          /\ HasSession(user_sessions, u)
          /\ user_sessions[u].waiting_for \in ImageParams
          /\ faults < MaxFaults
    /\ faults' = IF outcome = "unsent" THEN faults + 1 ELSE faults
    /\ LET session == SessionOf(user_sessions, u)
           name == session.waiting_for
           count == ImageCount(session, name) + 1
           s1 == SetImageCount(session, name, count)
           s2 == [SetParam(s1, name, ImgList(count)) EXCEPT !.waiting_for = "None"]
           next == start_next_parameter(s2)
       IN IF OcrTestAwaited(user_sessions, u)
          THEN /\ IF outcome = "error"
                  THEN /\ conv' = [conv EXCEPT ![u] = ADMIN_TEST_OCR]
                       /\ UNCHANGED user_sessions
                  ELSE /\ user_sessions' = DelSession(user_sessions, u)
                       /\ conv' = [conv EXCEPT ![u] = END]
               /\ reply' = "none"
               /\ UNCHANGED inflight
          ELSE IF HasSession(user_sessions, u) /\ session.waiting_for = "payment_screenshot"
          THEN IF analysis_valid(outcome)
               THEN /\ Len(payments) < MaxPayments
                    /\ inflight' = [NoInflight EXCEPT !.user = u, !.at = "screenshot",
                                                      !.amount = session.topup_amount,
                                                      !.ocr = (outcome = "valid")]
                    /\ reply' = "none"
                    /\ UNCHANGED <<user_sessions, conv>>
               ELSE /\ conv' = [conv EXCEPT ![u] = WAITING_PAYMENT_SCREENSHOT]
                    /\ reply' = "rejected"
                    /\ UNCHANGED <<user_sessions, inflight>>
          ELSE IF HasSession(user_sessions, u) /\ session.waiting_for = "topup_amount_input"
          THEN /\ reply' = "none"              \* AttributeError: the text of a photo is None
               /\ UNCHANGED <<user_sessions, conv, inflight>>
          ELSE IF ~HasSession(user_sessions, u)
          THEN /\ conv' = [conv EXCEPT ![u] = END]
               /\ reply' = "none"
               /\ UNCHANGED <<user_sessions, inflight>>
          ELSE IF name \notin ImageParams \/ outcome \notin {"valid", "unsent"}
          THEN /\ conv' = [conv EXCEPT ![u] = INPUTTING_PARAMS]
               /\ reply' = "none"
               /\ UNCHANGED <<user_sessions, inflight>>
          ELSE IF outcome = "unsent"
          THEN /\ user_sessions' = PutSession(user_sessions, u, s1)    \* the reply raises
               /\ UNCHANGED <<conv, inflight, reply>>
          ELSE IF count < MaxImages
          THEN /\ user_sessions' = PutSession(user_sessions, u, s1)
               /\ conv' = [conv EXCEPT ![u] = INPUTTING_PARAMS]
               /\ reply' = "photo_stored"
               /\ UNCHANGED inflight
          ELSE IF ~session.has_params
          THEN /\ user_sessions' = PutSession(user_sessions, u, s1)    \* KeyError
               /\ reply' = "none"
               /\ UNCHANGED <<conv, inflight>>
          ELSE /\ user_sessions' = PutSession(user_sessions, u, next.session)
               /\ conv' = [conv EXCEPT ![u] = INPUTTING_PARAMS]
               /\ reply' = "none"
               /\ UNCHANGED inflight
    /\ UNCHANGED <<ledger, pollers>>

(* button_callback, data = "add_image" *)
add_image(u) ==
    /\ Idle
    /\ reply' = "none"
    /\ conv[u] = INPUTTING_PARAMS
    /\ IF ~HasSession(user_sessions, u)
       THEN UNCHANGED user_sessions
       ELSE LET session == user_sessions[u]
                image_param_name ==
                    IF "image_urls" \in ParamNames(session.model_id)
                    THEN "image_urls" ELSE "image_input"
            IN user_sessions' = PutSession(user_sessions, u,
                   [SetImageCount(session, image_param_name, 0)
                       EXCEPT !.waiting_for = image_param_name])
    /\ conv' = [conv EXCEPT ![u] = INPUTTING_PARAMS]
    /\ UNCHANGED <<ledger, pollers, inflight, faults>>

(* button_callback, data = "image_done" *)
image_done(u) ==
    /\ Idle
    /\ reply' = "none"
    /\ conv[u] = INPUTTING_PARAMS
    /\ IF ~HasSession(user_sessions, u)
       THEN /\ conv' = [conv EXCEPT ![u] = INPUTTING_PARAMS]    \* KeyError, caught
            /\ UNCHANGED user_sessions
       ELSE LET session == user_sessions[u]
                image_param_name ==
                    IF session.waiting_for = "absent" THEN "image_input"
                    ELSE session.waiting_for
                stores == image_param_name \in ImageParams
                          /\ ImageCount(session, image_param_name) > 0
                s1 == IF stores
                      THEN SetParam(session, image_param_name,
                                    ImgList(ImageCount(session, image_param_name)))
                      ELSE session
                s2 == [s1 EXCEPT !.waiting_for = "None"]
                next == start_next_parameter(s2)
            IN IF stores /\ ~session.has_params
               THEN UNCHANGED <<user_sessions, conv>>       \* KeyError 'params'
               ELSE /\ user_sessions' = PutSession(user_sessions, u, next.session)
                    /\ conv' = [conv EXCEPT ![u] =
                                   IF next.result # "None" THEN next.result
                                   ELSE CONFIRMING_GENERATION]
    /\ UNCHANGED <<ledger, pollers, inflight, faults>>

(* button_callback, data = "skip_image" *)
skip_image(u) ==
    /\ Idle
    /\ reply' = "none"
    /\ conv[u] = INPUTTING_PARAMS
    /\ IF ~HasSession(user_sessions, u)
       THEN /\ conv' = [conv EXCEPT ![u] = INPUTTING_PARAMS]    \* KeyError, caught
            /\ UNCHANGED user_sessions
       ELSE LET next == start_next_parameter(user_sessions[u])
            IN /\ user_sessions' = PutSession(user_sessions, u, next.session)
               /\ conv' = [conv EXCEPT ![u] =
                              IF next.result # "None" THEN next.result
                              ELSE CONFIRMING_GENERATION]
    /\ UNCHANGED <<ledger, pollers, inflight, faults>>

(* ------------------------------------------------------------------ *)
(* Ledger files.  A file is the value load_json_file parses from it.     *)
(* load_json_file returns the default when the read raises (ok is        *)
(* FALSE).  save_json_file returns normally whatever happens: the data   *)
(* is stored ("ok"); open() raises and the file is as it was ("open");   *)
(* or json.dump or the close raises after open(filename, 'w') has        *)
(* truncated the file ("write"), and what is left parses to nothing, so  *)
(* that every later load_json_file returns its default, empty.           *)
(* ------------------------------------------------------------------ *)
load_json_file(stored, default, ok) == IF ok THEN stored ELSE default

save_json_file(stored, data, empty, outcome) ==
    CASE outcome = "ok" -> data
      [] outcome = "open" -> stored
      [] OTHER -> empty

NoBalances == [v \in Users |-> Zero]

(* The reads and writes of one add_payment call, in the order made: the
   payments file read and written, the balances file read by
   get_user_balance, read again and written by set_user_balance. *)
IoOk == [rp |-> TRUE, wp |-> "ok", rb |-> TRUE, rs |-> TRUE, wb |-> "ok"]

IoOutcomes ==
    {IoOk} \cup {[IoOk EXCEPT ![k] = FALSE] : k \in {"rp", "rb", "rs"}}
           \cup {[IoOk EXCEPT ![k] = w] : k \in {"wp", "wb"}, w \in {"open", "write"}}

stored_set_user_balance(bal, user_id, amount, rs, wb) ==
    save_json_file(bal, set_user_balance(load_json_file(bal, NoBalances, rs),
                                         user_id, amount), NoBalances, wb)

stored_add_user_balance(bal, user_id, amount, io) ==
    LET read == load_json_file(bal, NoBalances, io.rb)
        new_balance == get_user_balance(add_user_balance(read, user_id, amount), user_id)
    IN stored_set_user_balance(bal, user_id, new_balance, io.rs, io.wb)

stored_add_payment(pay, bal, user_id, amount, io) ==
    [pay |-> save_json_file(pay, add_payment(load_json_file(pay, <<>>, io.rp),
                                             user_id, amount), <<>>, io.wp),
     bal |-> stored_add_user_balance(bal, user_id, amount, io)]

(* del user_sessions[user_id] and the answer of the accepted-screenshot
   branch; the KeyError of a session a poller has deleted meanwhile is
   caught by the branch's except, which asks for the screenshot again *)
ScreenshotDone(u) ==
    /\ IF HasSession(user_sessions, u)
       THEN /\ user_sessions' = DelSession(user_sessions, u)
            /\ conv' = [conv EXCEPT ![u] = END]
            /\ reply' = "credited"
       ELSE /\ conv' = [conv EXCEPT ![u] = WAITING_PAYMENT_SCREENSHOT]
            /\ reply' = "rejected"
            /\ UNCHANGED user_sessions
    /\ inflight' = NoInflight

(* input_parameters resumed in the accepted-screenshot branch: add_payment
   with the amount read before the awaits, io the outcome of each of its
   file accesses; then analysis_msg.delete() is awaited when OCR ran, else
   the session is dropped at once *)
input_photo_credit(io) ==
    /\ inflight.at = "screenshot"
    /\ io # IoOk => faults < MaxFaults
    /\ faults' = IF io = IoOk THEN faults ELSE faults + 1
    /\ LET u == inflight.user
           r == stored_add_payment(payments, balances, u, inflight.amount, io)
       IN /\ payments' = r.pay
          /\ balances' = r.bal
          /\ IF inflight.ocr
             THEN /\ inflight' = [inflight EXCEPT !.at = "analysis_msg"]
                  /\ UNCHANGED <<user_sessions, conv, reply>>
             ELSE ScreenshotDone(u)
    /\ UNCHANGED <<admin_limits, blocked, pollers>>

(* input_parameters resumed after analysis_msg.delete() *)
input_photo_done ==
    /\ inflight.at = "analysis_msg"
    /\ ScreenshotDone(inflight.user)
    /\ UNCHANGED <<ledger, pollers, faults>>

(* ------------------------------------------------------------------ *)
(* Payment verifier.  A screenshot is what the analysis sees of it: shot  *)
(* tells whether opening or reading the image raises, whether the text   *)
(* holds a payment keyword, the numbers the amount patterns find, and    *)
(* whether a number of the text matches the expected phone.              *)
(* ------------------------------------------------------------------ *)
(* the two passes over unique_amounts: within 1 RUB or 10 % of the
   expected amount, else a reasonable amount within 10 RUB *)
amount_matches(amounts, expected_amount) ==
    \E amt \in amounts :
        LET diff == FAbsDiff(amt, expected_amount)
            diff_percent == IF FGt(expected_amount, Zero)
                            THEN FDiv(diff, expected_amount) ELSE Float(1)
        IN \/ FLt(diff, Float(1))
           \/ FLt(diff_percent, Tenth)
           \/ /\ FGe(amt, Float(10)) /\ FGe(Float(100000), amt)
              /\ FLt(diff, Float(10))

(* the numbers the screenshots of the verifier specification show, and the
   amounts its top-up sessions expect *)
ShotAmounts == {{}, {Float(100)}, {Float(109)}, {Float(84)}, {Float(5), Float(200)}}

ExpectedAmounts == {Float(100), Float(75), NaN}

(* amount_found of these, computed once *)
AmountFound ==
    [amounts \in ShotAmounts, expected_amount \in ExpectedAmounts |->
        amount_matches(amounts, expected_amount)]

amount_found(amounts, expected_amount) ==
    IF amounts \in ShotAmounts /\ expected_amount \in ExpectedAmounts
    THEN AmountFound[amounts, expected_amount]
    ELSE amount_matches(amounts, expected_amount)

(* a verdict that takes an amount or a keyword alone as proof *)
analyze_payment_screenshot_lax(ocr_available, shot, expected_amount, expected_phone) ==
    [valid |-> amount_found(shot.amounts, expected_amount) \/ shot.keywords]

analyze_payment_screenshot(ocr_available, shot, expected_amount, expected_phone) ==
    IF ~ocr_available THEN [valid |-> TRUE]
    ELSE IF shot.raises THEN [valid |-> TRUE]
    ELSE LET found == amount_found(shot.amounts, expected_amount)
             phone_found == expected_phone /\ shot.phone
         IN [valid |-> IF expected_phone
                       THEN (found \/ phone_found) /\ shot.keywords
                       ELSE found /\ shot.keywords]

(* a handler that credits only what the analysis has checked *)
ScreenshotOutcome_checked(ocr_available, downloaded, shot, expected_amount, expected_phone) ==
    IF ~downloaded THEN "error"
    ELSE IF ocr_available /\ ~shot.raises
              /\ analyze_payment_screenshot(TRUE, shot, expected_amount,
                                            expected_phone).valid
    THEN "valid"
    ELSE "invalid"

(* what input_parameters makes of a payment screenshot: the download may
   raise; without OCR the analysis is skipped and the payment recorded *)
ScreenshotOutcome(ocr_available, downloaded, shot, expected_amount, expected_phone) ==
    IF ~downloaded THEN "error"
    ELSE IF ~ocr_available THEN "skipped"
    ELSE IF analyze_payment_screenshot(ocr_available, shot, expected_amount,
                                       expected_phone).valid
    THEN "valid"
    ELSE "invalid"

(* input_parameters, a photo sent while a payment screenshot is awaited.
   ocr_available (OCR_AVAILABLE and PIL_AVAILABLE) and expected_phone
   (PAYMENT_PHONE set) are the deployment's. *)
input_screenshot(u, ocr_available, expected_phone, downloaded, shot) ==
    /\ HasSession(user_sessions, u)
    /\ user_sessions[u].waiting_for = "payment_screenshot"
    /\ input_photo(u, ScreenshotOutcome(ocr_available, downloaded, shot,
                                        user_sessions[u].topup_amount,
                                        expected_phone))

(* ------------------------------------------------------------------ *)
(* The ledger calls on their own                                        *)
(* ------------------------------------------------------------------ *)
(* add_user_balance(user_id, amount), as add_payment calls it *)
ledger_credit(u, amount) ==
    /\ Idle
    /\ Len(payments) < MaxPayments
    /\ payments' = add_payment(payments, u, amount)
    /\ balances' = add_user_balance(balances, u, amount)
    /\ reply' = "credited"
    /\ UNCHANGED <<user_sessions, conv, admin_limits, blocked, pollers, inflight, faults>>

(* subtract_user_balance(user_id, amount); reply is the value returned *)
ledger_debit(u, amount) ==
    /\ Idle
    /\ balances' = subtract_user_balance(balances, u, amount)
    /\ reply' = IF subtract_succeeds(balances, u, amount) THEN "True" ELSE "False"
    /\ UNCHANGED <<user_sessions, conv, admin_limits, blocked, payments, pollers, inflight, faults>>

(* add_user_balance(user_id, amount) and then
   subtract_user_balance(user_id, amount), nothing in between *)
ledger_credit_debit(u, amount) ==
    /\ Idle
    /\ LET credited == add_user_balance(balances, u, amount)
       IN /\ balances' = subtract_user_balance(credited, u, amount)
          /\ reply' = IF subtract_succeeds(credited, u, amount) THEN "True" ELSE "False"
    /\ UNCHANGED <<user_sessions, conv, admin_limits, blocked, payments, pollers, inflight, faults>>

(* button_callback, data = "admin_user_mode" *)
admin_user_mode(u) ==
    /\ Idle
    /\ reply' = "none"
    /\ conv[u] = END
    /\ IF u # ADMIN_ID
       THEN UNCHANGED user_sessions
       ELSE user_sessions' = PutSession(user_sessions, u,
               [SessionOf(user_sessions, u) EXCEPT !.admin_user_mode = ~@])
    /\ conv' = [conv EXCEPT ![u] = END]
    /\ UNCHANGED <<ledger, pollers, inflight, faults>>

(* /add_admin <id>, /block_user <id>, /unblock_user <id>: commands of the
   main admin, registered ahead of the conversation handler *)
admin_add_admin(sender, new_admin_id) ==
    /\ Idle
    /\ reply' = "none"
    /\ IF sender # ADMIN_ID \/ new_admin_id = ADMIN_ID
          \/ new_admin_id \in DOMAIN admin_limits
       THEN UNCHANGED admin_limits
       ELSE admin_limits' =
               [v \in DOMAIN admin_limits \cup {new_admin_id} |->
                   IF v = new_admin_id
                   THEN [limit |-> Float(DefaultAdminLimitRub), spent |-> Zero]
                   ELSE admin_limits[v]]
    /\ UNCHANGED <<user_sessions, conv, balances, blocked, payments,
                   pollers, inflight, faults>>

admin_block_user(sender, user_id) ==
    /\ Idle
    /\ reply' = "none"
    /\ blocked' = IF sender = ADMIN_ID THEN blocked \cup {user_id} ELSE blocked
    /\ UNCHANGED <<user_sessions, conv, balances, admin_limits, payments,
                   pollers, inflight, faults>>

admin_unblock_user(sender, user_id) ==
    /\ Idle
    /\ reply' = "none"
    /\ blocked' = IF sender = ADMIN_ID THEN blocked \ {user_id} ELSE blocked
    /\ UNCHANGED <<user_sessions, conv, balances, admin_limits, payments,
                   pollers, inflight, faults>>

(* ------------------------------------------------------------------ *)
(* Job orchestrator                                                     *)
(* ------------------------------------------------------------------ *)
NextTaskId == Cardinality(DOMAIN pollers) + 1

(* the price confirm_generation and poll_task_status compute from a
   session dict *)
SessionPrice(session, is_admin_user) ==
    calculate_price_rub(session.model_id, session.params, is_admin_user)

(* the balance or limit check of confirm_generation fails *)
(* a confirmation that does not re-run the sufficiency check *)
Insufficient_skipped(u, price, is_admin_user) == FALSE

Insufficient(u, price, is_admin_user) ==
    IF ~is_admin_user
    THEN FLt(get_user_balance(balances, u), price)
    ELSE u # ADMIN_ID /\ RemainingBelow(admin_limits, u, price)

(* confirm_generation up to the await of kie.create_task; cap bounds the
   number of tasks a behaviour submits *)
confirm_generation(u, cap) ==
    /\ Idle
    /\ conv[u] = CONFIRMING_GENERATION
    /\ LET is_admin_user == get_is_admin(admin_limits, user_sessions, u)
           price == SessionPrice(user_sessions[u], is_admin_user)
       IN IF ~is_admin_user /\ is_user_blocked(blocked, u)
          THEN /\ conv' = [conv EXCEPT ![u] = END]
               /\ reply' = "blocked"
               /\ UNCHANGED inflight
          ELSE IF ~HasSession(user_sessions, u)
          THEN /\ conv' = [conv EXCEPT ![u] = END]
               /\ reply' = "no_session"
               /\ UNCHANGED inflight
          ELSE IF Insufficient(u, price, is_admin_user)
          THEN /\ conv' = [conv EXCEPT ![u] = END]
               /\ reply' = "insufficient"
               /\ UNCHANGED inflight
          ELSE /\ NextTaskId <= cap
               /\ inflight' = [NoInflight EXCEPT !.user = u, !.price = price,
                                                 !.at = "create_task"]
               /\ reply' = "none"
               /\ UNCHANGED conv
    /\ UNCHANGED <<user_sessions, ledger, pollers, faults>>

(* Bookkeeping of a poller beside its position: the price its task was
   confirmed at, how often it observed success and fail, how many charges
   it made, their amounts and those of them debited from a balance, whether a
   debit was refused, deliveries completed, timeout notices sent and timeout
   notices whose send raised, whether every poll so far answered "waiting",
   and whether it observed success with the user's session gone.  Locals of the success branch: remove_watermark
   ("None" while unassigned, as for every model but sora-2-text-to-video),
   result_data (the URL lists of resultJson), result_urls[:5], and the
   number of its artifacts a delivery attempt was made for. *)
NoResultData == [resultUrls |-> <<>>, resultWaterMarkUrls |-> <<>>]

NewPoller(u, price) ==
    [user |-> u, attempt |-> 0, pc |-> "sleep", price |-> price,
     successes |-> 0, fails |-> 0, charges |-> 0, charged |-> <<>>, debited |-> <<>>,
     refused |-> FALSE, delivered |-> 0,
     timeouts |-> 0, unsent |-> 0, only_waiting |-> TRUE, orphan |-> FALSE,
     remove_watermark |-> "None", result_data |-> NoResultData,
     result_urls |-> <<>>, attempted |-> 0]

(* confirm_generation from the result of kie.create_task to its return.
   raised is the number of query.edit_message_text calls that raise: the
   one that reports the result (a task created, or the error of a result
   that is not ok) and, in the except clause it leads to, the one that
   reports the exception.  After the first the poller of a created task is
   never started (pc "unstarted": the task exists at the API alone) and the
   except clause drops the session; the second leaves the handler before
   that, with the session kept and the conversation where it was. *)
create_task_result(ok, raised) ==
    /\ inflight.at = "create_task"
    /\ raised \in 0..2
    /\ raised > 0 => faults < MaxFaults
    /\ faults' = IF raised > 0 THEN faults + 1 ELSE faults
    /\ LET u == inflight.user
           task == [NewPoller(u, inflight.price) EXCEPT
                       !.pc = IF raised = 0 THEN "sleep" ELSE "unstarted"]
           session == IF ok /\ HasSession(user_sessions, u)
                      THEN [user_sessions EXCEPT ![u].task_id = NextTaskId,
                                                 ![u].submitted = TRUE]
                      ELSE user_sessions
       IN /\ user_sessions' = IF raised = 2 \/ (ok /\ raised = 0) THEN session
                               ELSE DelSession(user_sessions, u)
          /\ pollers' = IF ok
                         THEN [t \in DOMAIN pollers \cup {NextTaskId} |->
                                  IF t = NextTaskId THEN task ELSE pollers[t]]
                         ELSE pollers
          /\ conv' = IF raised = 2 THEN conv ELSE [conv EXCEPT ![u] = END]
    /\ reply' = "none"
    /\ inflight' = NoInflight
    /\ UNCHANGED ledger

(* Responses of kie.get_task_status: a result that is not ok, or the state
   it reports ("waiting" stands for waiting, queuing and generating). *)
Responses == {"not_ok", "success", "fail", "waiting", "unknown"}

(* The timeout notices a pass is to send when it ends the loop: none
   below the cap; at the cap the one after the loop and, before it, the one
   of the except clause when the pass raised.  A send can raise: sent is
   the number of notices sent before that, and the coroutine ends there. *)
TimeoutNotices(p, raised) ==
    IF p.attempt < max_attempts THEN 0 ELSE IF raised THEN 2 ELSE 1

NoticeCounts == 0..2

(* a continue that skips the loop condition *)
Continue_uncapped(p, sent) == [p EXCEPT !.pc = "sleep"]

(* a timeout notice of the pass was not sent: its send raised *)
Unsent(p, raised, sent) == IF sent < TimeoutNotices(p, raised) THEN 1 ELSE 0

(* break: leave the loop, then the check after the loop *)
Stop(p, sent) ==
    [p EXCEPT !.pc = "done", !.timeouts = @ + sent,
              !.unsent = @ + Unsent(p, FALSE, sent)]

(* continue: back to the loop condition *)
Continue(p, sent) ==
    IF p.attempt >= max_attempts THEN Stop(p, sent) ELSE [p EXCEPT !.pc = "sleep"]

(* an exception reached the except clause of the loop body *)
Raised(p, sent) ==
    IF p.attempt >= max_attempts
    THEN [p EXCEPT !.pc = "done", !.timeouts = @ + sent,
                   !.unsent = @ + Unsent(p, TRUE, sent)]
    ELSE [p EXCEPT !.pc = "sleep"]

(* the step sends a message (or parses the result) that can raise *)
CanRaise(resp, attempt) == resp # "waiting" \/ attempt % StatusEvery = 0

(* The raises a behaviour explores: a pass below the cap of the loop polls
   again after a raise, and at most MaxFaults raising steps are followed
   that way; the pass at the cap ends the coroutine whatever raises, and
   every one of its raises is followed. *)
Explored(p, raises) == p.attempt >= max_attempts \/ faults + raises <= MaxFaults

Counted(raises) == IF faults + raises <= MaxFaults THEN faults + raises ELSE MaxFaults

(* the charge of the success branch: which ledger call it makes *)
ChargeKind(u) ==
    IF ~HasSession(user_sessions, u) \/ u = ADMIN_ID THEN "none"
    ELSE IF get_is_admin(admin_limits, user_sessions, u) THEN "spent"
    ELSE "debit"

ChargePrice(u) ==
    SessionPrice(SessionOf(user_sessions, u),
                 get_is_admin(admin_limits, user_sessions, u))

ChargedLimits(u) ==
    IF ChargeKind(u) = "spent"
    THEN add_admin_spent(admin_limits, u, ChargePrice(u))
    ELSE admin_limits

ChargedBalances(u) ==
    IF ChargeKind(u) = "debit"
    THEN subtract_user_balance(balances, u, ChargePrice(u))
    ELSE balances

(* the charge was made: addSpent was called, or the debit returned True *)
ChargeMade(u) ==
    \/ ChargeKind(u) = "spent"
    \/ ChargeKind(u) = "debit" /\ subtract_succeeds(balances, u, ChargePrice(u))

(* poll_task_status: one pass of the loop body, from the end of the sleep
   to the next await that lets other code run.  good is FALSE when the
   message this pass sends raises or, on success, when resultJson cannot be
   used (json.loads raises, or the except clause for it does); sent is the
   number of timeout notices the pass sends: none when it goes on to the
   delivery, whose step sends the notice after the loop. *)
poll_task_status(t, resp, good, sent) ==
    /\ t \in DOMAIN pollers
    /\ pollers[t].pc = "sleep"
    /\ good \/ CanRaise(resp, pollers[t].attempt + 1)
    /\ LET u == pollers[t].user
           p == [pollers[t] EXCEPT !.attempt = @ + 1,
                                   !.only_waiting = @ /\ resp = "waiting"]
           due == IF good /\ resp = "success" THEN 0 ELSE TimeoutNotices(p, ~good)
           raises == IF good /\ sent = due THEN 0 ELSE 1
       IN /\ sent \in 0..due
          /\ Explored(p, raises)
          /\ faults' = Counted(raises)
          /\ CASE resp = "success" ->
                       \E kind \in {ChargeKind(u)}, price \in {ChargePrice(u)},
                          made \in {ChargeMade(u)} :
                           /\ admin_limits' = ChargedLimits(u)
                           /\ balances' = ChargedBalances(u)
                           /\ LET q == [p EXCEPT
                                         !.successes = @ + 1,
                                         !.orphan = @ \/ ~HasSession(user_sessions, u),
                                         !.charges = @ + (IF made THEN 1 ELSE 0),
                                         !.charged = IF made THEN Append(@, price) ELSE @,
                                         !.debited = IF made /\ kind = "debit"
                                                     THEN Append(@, price) ELSE @,
                                         !.refused = @ \/ (kind = "debit" /\ ~made),
                                         !.remove_watermark =
                                             IF SessionOf(user_sessions, u).model_id
                                                    # "sora-2-text-to-video"
                                             THEN "None"
                                             ELSE IF ParamGet(SessionOf(user_sessions, u).params,
                                                              "remove_watermark", "True") = "False"
                                             THEN "False" ELSE "True"]
                              IN pollers' = [pollers EXCEPT ![t] =
                                                IF good THEN [q EXCEPT !.pc = "deliver"]
                                                ELSE Raised(q, sent)]
                           /\ UNCHANGED user_sessions
                  [] resp = "fail" ->
                       /\ pollers' = [pollers EXCEPT ![t] =
                                         IF good THEN Stop([p EXCEPT !.fails = @ + 1], sent)
                                         ELSE Raised([p EXCEPT !.fails = @ + 1], sent)]
                       /\ user_sessions' = IF good THEN DelSession(user_sessions, u)
                                           ELSE user_sessions
                       /\ UNCHANGED <<balances, admin_limits>>
                  [] resp = "not_ok" ->
                       /\ pollers' = [pollers EXCEPT ![t] =
                                         IF good THEN Stop(p, sent) ELSE Raised(p, sent)]
                       /\ UNCHANGED <<user_sessions, balances, admin_limits>>
                  [] OTHER ->
                       /\ pollers' = [pollers EXCEPT ![t] =
                                         IF good THEN Continue(p, sent) ELSE Raised(p, sent)]
                       /\ UNCHANGED <<user_sessions, balances, admin_limits>>
    /\ UNCHANGED <<conv, blocked, payments, inflight, reply>>

(* the URL list the success branch delivers *)
result_urls(remove_watermark, result_data) ==
    IF remove_watermark = "None" THEN result_data.resultUrls
    ELSE IF remove_watermark = "True" THEN result_data.resultUrls
    ELSE IF result_data.resultWaterMarkUrls # <<>>
    THEN result_data.resultWaterMarkUrls
    ELSE result_data.resultUrls

(* result_urls[:5], the artifacts the delivery loop visits *)
Shown(t, result_data) ==
    LET urls == result_urls(pollers[t].remove_watermark, result_data)
    IN SubSeq(urls, 1, IF Len(urls) < DeliveryLimit THEN Len(urls) ELSE DeliveryLimit)

(* poll_task_status: the delivery of the results of a successful task and
   what follows it.  result_data is the parsed resultJson; tiers[i] is the
   number of delivery tiers that raise for artifact i (file upload, send by
   URL, bare URL as text), ready_ok is FALSE when the "result is ready"
   message of an empty result raises, sent is the number of timeout
   notices sent. *)
deliver_urls(t, result_data, tiers, ready_ok, sent) ==
    /\ t \in DOMAIN pollers
    /\ pollers[t].pc = "deliver"
    /\ LET u == pollers[t].user
           shown == Shown(t, result_data)
           lost == {i \in DOMAIN shown : tiers[i] >= TierCount}
           good == IF shown = <<>> THEN ready_ok ELSE lost = {}
           p == [pollers[t] EXCEPT
                    !.result_data = result_data,
                    !.result_urls = shown,
                    !.attempted = IF lost = {} THEN Len(shown)
                                  ELSE CHOOSE i \in lost : \A j \in lost : i <= j]
           due == TimeoutNotices(p, ~good)
           raises == IF good /\ sent = due THEN 0 ELSE 1
       IN /\ DOMAIN tiers = DOMAIN shown
          /\ shown # <<>> => ready_ok
          /\ sent \in 0..due
          /\ Explored(p, raises)
          /\ faults' = Counted(raises)
          /\ IF good
             THEN /\ pollers' = [pollers EXCEPT ![t] =
                                    Stop([p EXCEPT !.delivered = @ + 1], sent)]
                  /\ user_sessions' = DelSession(user_sessions, u)
             ELSE /\ pollers' = [pollers EXCEPT ![t] = Raised(p, sent)]
                  /\ UNCHANGED user_sessions
    /\ UNCHANGED <<conv, ledger, inflight, reply>>

(* the delivery of a result of one URL; good is FALSE when its last tier
   raises *)
deliver_result(t, good, sent) ==
    deliver_urls(t, [resultUrls |-> <<"u1">>, resultWaterMarkUrls |-> <<>>],
                 <<IF good THEN 0 ELSE TierCount>>, TRUE, sent)

(* ------------------------------------------------------------------ *)
(* Specification                                                        *)
(* ------------------------------------------------------------------ *)
ModelChoices == {"z-image", "sora-watermark-remover", "no-such-model"}
TextChoices == {"a cat", "long-text"}
ParamChoices == {<<"aspect_ratio", "16:9">>}
TopupChoices == {Float(100)}
Outcomes == {"valid", "skipped", "invalid", "error"}

(* the chats an update can come from *)
Chats == DOMAIN conv

(* The orchestration specification: one task, the API answers within
   MaxPolls polls, nobody is blocked, and the messages confirm_generation
   edits after createTask are sent; the race specification has them raise. *)
Next ==
    \/ \E u \in Chats, m \in ModelChoices : select_model(u, m)
    \/ select_model_prompt
    \/ \E u \in Chats, ocr \in BOOLEAN : admin_test_ocr(u, ocr)
    \/ \E u \in Chats : back_to_menu(u)
    \/ \E u \in Chats : generate_again(u)
    \/ \E u \in Chats : button_cancel(u)
    \/ \E u \in Chats : cancel(u)
    \/ \E u \in Chats, c \in ParamChoices : set_param(u, c[1], c[2])
    \/ \E u \in Chats, x \in TextChoices : input_text(u, x)
    \/ \E u \in Chats, o \in Outcomes : input_photo(u, o)
    \/ input_photo_credit(IoOk)
    \/ input_photo_done
    \/ \E u \in Chats, a \in TopupChoices : topup_amount(u, a)
    \/ \E u \in Chats : admin_user_mode(u)
    \/ \E u \in Chats : confirm_generation(u, MaxTasks)
    \/ \E ok \in BOOLEAN : create_task_result(ok, 0)
    \/ \E t \in DOMAIN pollers, r \in Responses \ {"unknown"}, g \in BOOLEAN :
          pollers[t].attempt < MaxPolls /\ poll_task_status(t, r, g, 0)
    \/ \E t \in DOMAIN pollers, g \in BOOLEAN, sent \in NoticeCounts :
          deliver_result(t, g, sent)

Spec == Init /\ [][Next]_vars

(* The race specification: a user submits up to MaxTasks + 1 tasks, one
   after the other, tops up in between, and the pollers run side by side;
   every task succeeds at its first poll. *)
NextRace ==
    \/ \E u \in Chats : select_model(u, "z-image")
    \/ select_model_prompt
    \/ \E u \in Chats, c \in ParamChoices : set_param(u, c[1], c[2])
    \/ \E u \in Chats : input_text(u, "a cat")
    \/ \E u \in Chats : confirm_generation(u, MaxTasks + 1)
    \/ \E raised \in 0..2 : create_task_result(TRUE, raised)
    \/ \E t \in DOMAIN pollers : poll_task_status(t, "success", TRUE, 0)
    \/ \E t \in DOMAIN pollers : deliver_result(t, TRUE, 0)
    \/ \E u \in Chats, a \in TopupChoices : topup_amount(u, a)
    \/ \E u \in Chats : input_photo(u, "valid")
    \/ input_photo_credit(IoOk)
    \/ input_photo_done

SpecRace == Init /\ [][NextRace]_vars

(* The polling specification: a single task polled up to the cap of the
   loop, with every response and with raised sends. *)
NextPolling ==
    \/ \E u \in Chats : select_model(u, "z-image")
    \/ select_model_prompt
    \/ \E u \in Chats : input_text(u, "a cat")
    \/ \E u \in Chats, c \in ParamChoices : set_param(u, c[1], c[2])
    \/ \E u \in Chats : confirm_generation(u, 1)
    \/ create_task_result(TRUE, 0)
    \/ \E t \in DOMAIN pollers, r \in Responses, g \in BOOLEAN, sent \in NoticeCounts :
          poll_task_status(t, r, g, sent)
    \/ \E t \in DOMAIN pollers, g \in BOOLEAN, sent \in NoticeCounts :
          deliver_result(t, g, sent)

SpecPolling == Init /\ [][NextPolling]_vars

(* The same with progress: the sleep of a running poller ends, the status
   request and the sends of its pass return or raise, so a poller that can
   take its next pass eventually takes it. *)
PollerStep ==
    \/ \E t \in DOMAIN pollers, r \in Responses, g \in BOOLEAN, sent \in NoticeCounts :
          poll_task_status(t, r, g, sent)
    \/ \E t \in DOMAIN pollers, g \in BOOLEAN, sent \in NoticeCounts :
          deliver_result(t, g, sent)

SpecPollingLive == SpecPolling /\ WF_vars(PollerStep)

(* The delivery specification: one task of a model with or without the
   watermark switch succeeds; its result carries each combination of URL
   lists and each artifact loses any number of delivery tiers (of a long
   list: none or all).  The user sends nothing while the task runs. *)
ResultData ==
    [resultUrls : {<<>>, <<"u1">>, <<"u1", "u2">>,
                   <<"u1", "u2", "u3", "u4", "u5", "u6">>},
     resultWaterMarkUrls : {<<>>, <<"w1">>}]

Tiers(n) == IF n <= 2 THEN [1..n -> 0..TierCount] ELSE [1..n -> {0, TierCount}]

NextDelivery ==
    \/ \E u \in Chats, m \in {"z-image", "sora-2-text-to-video"} :
          pollers = <<>> /\ select_model(u, m)
    \/ select_model_prompt
    \/ \E u \in Chats : pollers = <<>> /\ input_text(u, "a cat")
    \/ \E u \in Chats, c \in ParamChoices \cup {<<"remove_watermark", "true">>,
                                                 <<"remove_watermark", "false">>} :
          pollers = <<>> /\ set_param(u, c[1], c[2])
    \/ \E u \in Chats : confirm_generation(u, 1)
    \/ create_task_result(TRUE, 0)
    \/ \E t \in DOMAIN pollers, r \in {"success", "waiting"} :
          pollers[t].attempt < MaxPolls /\ poll_task_status(t, r, TRUE, 0)
    \/ \E t \in DOMAIN pollers, rd \in ResultData, ready_ok \in BOOLEAN :
          \E tiers \in Tiers(Len(Shown(t, rd))) : deliver_urls(t, rd, tiers, ready_ok, 0)

SpecDelivery == Init /\ [][NextDelivery]_vars

(* The form specification: two chats and no task.  The second user walks
   the parameter form with every text, photo and callback identifier, in
   any order; the main admin opens sessions of their own beside it. *)
FormModels == {"z-image", "nano-banana-pro", "sora-watermark-remover"}
FormParams ==
    {<<"aspect_ratio", "16:9">>, <<"aspect_ratio", "7:1">>, <<"resolution", "4K">>}

InitForm ==
    /\ user_sessions = EmptyFn
    /\ conv = [v \in Users |-> END]
    /\ \E l \in {LedgerRegularLow, LedgerAdminFresh} :
          /\ balances = [v \in Users |-> IF v = OtherUser THEN l.bal ELSE Zero]
          /\ admin_limits = l.lim
          /\ payments = l.pay
    /\ blocked = {}
    /\ pollers = EmptyFn
    /\ inflight = NoInflight
    /\ reply = "none"
    /\ faults = 0

NextForm ==
    \/ \E m \in FormModels : select_model(OtherUser, m)
    \/ select_model_prompt
    \/ \E x \in TextChoices : input_text(OtherUser, x)
    \/ \E c \in FormParams : set_param(OtherUser, c[1], c[2])
    \/ add_image(OtherUser)
    \/ image_done(OtherUser)
    \/ skip_image(OtherUser)
    \/ input_photo(OtherUser, "valid")
    \/ back_to_menu(OtherUser)
    \/ \E u \in Users : button_cancel(u)
    \/ \E u \in Users : cancel(u)
    \/ \E a \in TopupChoices : topup_amount(ADMIN_ID, a)

SpecForm == InitForm /\ [][NextForm]_vars

(* The walk specification: one chat, every model of the catalog, and a
   user who presses only the buttons of the bot's latest message and sends
   a text only when a text is awaited.  Within that the user is free: any
   offered value, any text, photos that upload or fail, leaving for the
   menu, cancelling and selecting again at any point. *)
WalkAnswers(info) ==
    IF info.type = "boolean" THEN {"true", "false"} ELSE SeqToSet(info.enum)

(* the buttons start_next_parameter drew for current_param *)
AnswerOffered(u, n, v) ==
    /\ HasSession(user_sessions, u)
    /\ user_sessions[u].current_param = n
    /\ n \in ParamNames(user_sessions[u].model_id)
    /\ v \in WalkAnswers(ParamInfo(user_sessions[u].model_id, n))

(* the image question that follows the prompt is the latest message *)
ImageOffered(u) ==
    /\ HasSession(user_sessions, u)
    /\ conv[u] = INPUTTING_PARAMS
    /\ reply = "image_question"

(* the question has "skip" only when the model's image list is optional *)
SkipOffered(u) ==
    /\ ImageOffered(u)
    /\ LET m == user_sessions[u].model_id
           name == IF "image_urls" \in ParamNames(m) THEN "image_urls" ELSE "image_input"
       IN ~ParamInfo(m, name).required

ImageAwaited(u) ==
    /\ HasSession(user_sessions, u)
    /\ user_sessions[u].waiting_for \in ImageParams

(* "add more" and "done" under the reply to a stored photo, the latest
   message *)
MoreOffered(u) ==
    /\ ImageAwaited(u)
    /\ conv[u] = INPUTTING_PARAMS
    /\ reply = "photo_stored"

TextAwaited(u) ==
    /\ HasSession(user_sessions, u)
    /\ Truthy(user_sessions[u].waiting_for)
    /\ user_sessions[u].waiting_for \notin ImageParams

WalkValues == {"16:9", "1:1", "basic", "high"}

Categories == {"all", "Photo", "Video", "Audio"}

NextWalk ==
    \/ \E u \in Chats, k \in BOOLEAN : start_generation(u, k)
    \/ \E u \in Chats, c \in Categories : show_models(u, c)
    \/ \E u \in Chats, m \in ModelIds : select_model(u, m)
    \/ select_model_prompt
    \/ \E u \in Chats, x \in TextChoices : TextAwaited(u) /\ input_text(u, x)
    \/ \E u \in Chats, n \in {"aspect_ratio", "quality"}, v \in WalkValues :
          AnswerOffered(u, n, v) /\ set_param(u, n, v)
    \/ \E u \in Chats : (ImageOffered(u) \/ MoreOffered(u)) /\ add_image(u)
    \/ \E u \in Chats : SkipOffered(u) /\ skip_image(u)
    \/ \E u \in Chats : MoreOffered(u) /\ image_done(u)
    \/ \E u \in Chats, o \in Outcomes \cup {"unsent"} :
          ImageAwaited(u) /\ input_photo(u, o)
    \/ \E u \in Chats : back_to_menu(u)
    \/ \E u \in Chats : button_cancel(u)

SpecWalk == Init /\ [][NextWalk]_vars

(* The storage specification: both users top up, and every read and
   write of the ledger files made while a payment is recorded either goes
   through or fails, at most one failure per payment and MaxFaults in
   all. *)
StorageAmounts == {Float(100), Float(500)}

NextStorage ==
    \/ \E u \in Users, a \in StorageAmounts : topup_amount(u, a)
    \/ \E u \in Users, o \in Outcomes : input_photo(u, o)
    \/ \E io \in IoOutcomes : input_photo_credit(io)
    \/ input_photo_done
    \/ \E u \in Users : button_cancel(u)

SpecStorage == InitForm /\ [][NextStorage]_vars

(* The verifier specification: the top-up flow with screenshots of every
   kind, with and without OCR and with and without an expected phone. *)
Shots ==
    [raises : BOOLEAN, keywords : BOOLEAN, amounts : ShotAmounts, phone : BOOLEAN]

NextVerifier ==
    \/ \E u \in Chats, a \in TopupChoices : topup_amount(u, a)
    \/ \E u \in Chats : topup_custom(u)
    \/ \E u \in Chats, x \in {"75", "nan"} : input_text(u, x)
    \/ \E u \in Chats, ocr \in BOOLEAN, ph \in BOOLEAN, dl \in BOOLEAN, shot \in Shots :
          input_screenshot(u, ocr, ph, dl, shot)
    \/ input_photo_credit(IoOk)
    \/ input_photo_done
    \/ \E u \in Chats : button_cancel(u)

SpecVerifier == Init /\ [][NextVerifier]_vars

(* The ledger specification: credits and debits of float amounts on the
   balances file, from balances earlier runs left. *)
(* 0.0, 0.1 and 0.3 *)
ThreeTenths == Dec(3, 10)
FloatBalances == {Zero, Tenth, ThreeTenths}

(* 50.0, the least custom amount, and 100.0, the first preset *)
WholeAmounts == {Float(50), Float(100)}

(* those two and 0.1 *)
FloatAmounts == WholeAmounts \cup {Tenth}

InitLedger ==
    /\ user_sessions = EmptyFn
    /\ conv = [v \in Users |-> END]
    /\ \E b \in FloatBalances :
          balances = [v \in Users |-> IF v = OtherUser THEN b ELSE Zero]
    /\ admin_limits = EmptyFn
    /\ payments = <<>>
    /\ blocked = {}
    /\ pollers = EmptyFn
    /\ inflight = NoInflight
    /\ reply = "none"
    /\ faults = 0

NextLedger ==
    \/ \E x \in FloatAmounts : ledger_credit(OtherUser, x)
    \/ \E x \in WholeAmounts : ledger_debit(OtherUser, x)
    \/ \E x \in FloatAmounts : ledger_credit_debit(OtherUser, x)

SpecLedger == InitLedger /\ [][NextLedger]_vars

(* The top-up specification: the payment flow, with the amounts a user can
   type, and the block list. *)
AmountTexts == {"75", "10", "50001", "nan", "abc"}

NextTopup ==
    \/ \E u \in Chats : topup_balance(u)
    \/ \E u \in Chats, a \in TopupChoices : topup_amount(u, a)
    \/ \E u \in Chats : topup_custom(u)
    \/ \E u \in Chats, x \in AmountTexts : input_text(u, x)
    \/ \E u \in Chats, o \in Outcomes : input_photo(u, o)
    \/ input_photo_credit(IoOk)
    \/ input_photo_done
    \/ \E u \in Chats, ocr \in BOOLEAN : admin_test_ocr(u, ocr)
    \/ \E u \in Chats : button_cancel(u)
    \/ \E u \in Chats : back_to_menu(u)
    \/ \E u \in Users : admin_block_user(ADMIN_ID, u)
    \/ \E u \in Users : admin_unblock_user(ADMIN_ID, u)

SpecTopup == Init /\ [][NextTopup]_vars

(* ------------------------------------------------------------------ *)
(* Properties                                                           *)
(* ------------------------------------------------------------------ *)
Tasks == DOMAIN pollers

LimitedAdmins == DOMAIN admin_limits

RegularUser(u) == u # ADMIN_ID /\ u \notin LimitedAdmins

(* the poll of task t in this step observes the given state *)
Observes(t, state) ==
    \E g \in BOOLEAN, sent \in NoticeCounts : poll_task_status(t, state, g, sent)

(* C1: every task whose polling observed success has charged the ledger
   exactly once (the primary admin is never charged). *)
C1_ChargedExactlyOnce ==
    \A t \in Tasks :
        (pollers[t].successes >= 1 /\ pollers[t].user # ADMIN_ID)
            => pollers[t].charges = 1

(* the ledger does not cover the price of the session of u: a regular
   user's balance is below it, or a limited admin's remaining limit is *)
Short(u) ==
    LET s == user_sessions[u]
    IN IF u \in LimitedAdmins
       THEN \/ ~FGe(admin_limits[u].limit, admin_limits[u].spent)
            \/ FLt(FSub(admin_limits[u].limit, admin_limits[u].spent),
                   calculate_price_rub(s.model_id, s.params, TRUE))
       ELSE /\ u # ADMIN_ID
            /\ FLt(balances[u], calculate_price_rub(s.model_id, s.params, FALSE))

(* C2: a confirmation handled while the ledger does not cover the price
   submits nothing (no createTask call, no poller) and changes no ledger
   entry. *)
C2_ShortConfirmationSubmitsNothing ==
    [][\A u \in Chats :
          (/\ Idle
           /\ conv[u] = CONFIRMING_GENERATION
           /\ HasSession(user_sessions, u)
           /\ Short(u)
           /\ (conv'[u] # conv[u] \/ (inflight'.at = "create_task" /\ inflight'.user = u)))
          => (/\ inflight' = NoInflight
              /\ pollers' = pollers
              /\ ledger' = ledger)]_vars

C2_Witness ==
    /\ reply = "insufficient"
    /\ \E u \in Chats : conv[u] = END /\ HasSession(user_sessions, u) /\ Short(u)
    /\ \E t \in Tasks : pollers[t].charges = 1

(* C3: a poll that returns fail leaves the ledger as it is, clears the
   user's session and ends the polling of the task. *)
C3_FailClearsSession ==
    [][\A t \in Tasks :
          Observes(t, "fail")
          => (/\ ledger' = ledger
              /\ ~HasSession(user_sessions', pollers[t].user)
              /\ pollers'[t].pc = "done")]_vars

(* C4: a task whose polls all answered waiting, up to the cap of
   60, has ended with a timeout notice and without any charge. *)
C4_TimeoutWithoutCharge ==
    \A t \in Tasks :
        (pollers[t].only_waiting /\ pollers[t].attempt = max_attempts)
            => (/\ pollers[t].pc = "done"
                /\ pollers[t].timeouts >= 1
                /\ pollers[t].charges = 0
                /\ pollers[t].charged = <<>>)

(* C5: on success a regular user's balance decreases by the
   price of the task and no admin limit changes, a limited admin's spent
   grows by it and no balance changes, the primary admin changes nothing. *)
C5_ChargeByRole ==
    [][\A t \in Tasks :
          Observes(t, "success")
          => LET u == pollers[t].user
                 price == pollers[t].price
             IN IF u = ADMIN_ID
                THEN balances' = balances /\ admin_limits' = admin_limits
                ELSE IF u \in LimitedAdmins
                THEN /\ balances' = balances
                     /\ admin_limits' = [admin_limits EXCEPT ![u].spent = FAdd(@, price)]
                ELSE /\ admin_limits' = admin_limits
                     /\ balances' = [balances EXCEPT ![u] = FSub(@, price)]]_vars

(* C6: a finished task that observed success has removed from the ledger
   the unrounded price it was confirmed at, once. *)
C6_ChargedUnroundedPrice ==
    \A t \in Tasks :
        (pollers[t].pc = "done" /\ pollers[t].successes >= 1
            /\ pollers[t].user # ADMIN_ID)
            => pollers[t].charged = <<pollers[t].price>>

(* C7: every balance is at least 0 in every reachable state. *)
C7_BalanceNeverNegative == \A u \in Users : FGe(balances[u], Zero)

(* the amount credited to u in this step: the payment appended for u *)
CreditedIn(u) ==
    IF Len(payments') = Len(payments) + 1 /\ payments'[Len(payments')].user_id = u
    THEN payments'[Len(payments')].amount
    ELSE Zero

(* the tasks of u whose poller made a successful debit in this step *)
Debiting(u) ==
    {t \in Tasks : pollers[t].user = u /\ pollers'[t].debited # pollers[t].debited}

(* the amount the successful debit of this step took from u *)
DebitedIn(u) ==
    IF Debiting(u) = {} THEN Zero
    ELSE LET t == CHOOSE x \in Debiting(u) : TRUE
         IN pollers'[t].debited[Len(pollers'[t].debited)]

(* C8: in every step the balance of every user changes by exactly the
   credits of the step minus its successful debits, so over any
   interleaving of handlers and pollers no update is lost. *)
C8_NoLostUpdate ==
    [][\A u \in Users :
          balances'[u] = FAdd(FSub(balances[u], DebitedIn(u)), CreditedIn(u))]_vars

C8_Witness ==
    /\ Len(payments) = MaxPayments
    /\ \E t \in Tasks, v \in Tasks :
          t # v /\ pollers[t].debited # <<>> /\ pollers[v].debited # <<>>

(* C9: the spent value of a limited admin never exceeds the limit. *)
C9_SpentWithinLimit ==
    \A u \in LimitedAdmins : FGe(admin_limits[u].limit, admin_limits[u].spent)

(* C10: a task that observed success with the user's session gone has made
   no charge and delivered no result. *)
C10_OrphanSkipsChargeAndDelivery ==
    \A t \in Tasks :
        (pollers[t].orphan /\ pollers[t].successes = 1)
            => (pollers[t].charges = 0 /\ pollers[t].delivered = 0)

(* C11: a cancel, by the button or by the command, from any state of
   either flow removes the caller's session in that step and returns the
   conversation to its end; balances, admin limits, the blocked set, the
   payments, the running pollers and every other user's session are as
   they were. *)
Cancels(u) == button_cancel(u) \/ cancel(u)

C11_CancelFrame ==
    [][\A u \in Chats : Cancels(u) =>
          /\ ~HasSession(user_sessions', u)
          /\ conv'[u] = END
          /\ ledger' = ledger
          /\ pollers' = pollers
          /\ \A v \in Users \ {u} :
                /\ HasSession(user_sessions', v) = HasSession(user_sessions, v)
                /\ SessionOf(user_sessions', v) = SessionOf(user_sessions, v)
                /\ v \in Chats => conv'[v] = conv[v]]_vars

C11_Witness ==
    /\ reply = "cancelled"
    /\ ~HasSession(user_sessions, OtherUser)
    /\ conv[OtherUser] = END
    /\ HasSession(user_sessions, ADMIN_ID)
    /\ conv[ADMIN_ID] = WAITING_PAYMENT_SCREENSHOT

(* C12: a model whose schema has N required parameters other than the
   prompt and the image lists reaches the confirmation after exactly N
   parameter prompts, and the confirmation is never reached while one of
   those N parameters has no value. *)
CountedParams(m) ==
    SelectSeq(RequiredList(m), LAMBDA n : n \notin SkippedParams)

C12_ExactlyNPrompts ==
    \A u \in Chats :
        (conv[u] = CONFIRMING_GENERATION /\ HasSession(user_sessions, u)) =>
            LET session == user_sessions[u]
            IN /\ session.asked = Len(CountedParams(session.model_id))
               /\ SeqToSet(CountedParams(session.model_id)) \subseteq DOMAIN session.params

(* C13: a step that gives a parameter its value, by a text, a choice
   button, the end of the image list or the list reaching its cap, and
   after which every required parameter has a value and no question is
   open, ends in the confirmation state. *)
QuestionOpen(u) ==
    \/ ImageOffered(u)
    \/ HasSession(user_sessions, u) /\ Truthy(user_sessions[u].waiting_for)
    \/ HasSession(user_sessions, u) /\ Truthy(user_sessions[u].current_param)

ReceivesValue(u) ==
    /\ HasSession(user_sessions, u)
    /\ HasSession(user_sessions', u)
    /\ user_sessions'[u].model_id = user_sessions[u].model_id
    /\ \E k \in DOMAIN user_sessions'[u].params :
          \/ k \notin DOMAIN user_sessions[u].params
          \/ user_sessions'[u].params[k] # user_sessions[u].params[k]

C13_LastValueConfirms ==
    [][\A u \in Chats :
          (/\ ReceivesValue(u)
           /\ MissingAll(user_sessions'[u]) = <<>>
           /\ ~QuestionOpen(u)')
          => conv'[u] = CONFIRMING_GENERATION]_vars

(* C14: a user has at most one session, and after a model is selected
   the session holds the state of that model alone: no collected value,
   no task id, no image list in progress, no top-up amount, and the
   image-step flag of the new model. *)
Selects(u) ==
    \/ \E m \in ModelIds : select_model(u, m)
    \/ inflight.user = u /\ select_model_prompt

C14_SelectionStartsClean ==
    [][\A u \in Chats :
          (Selects(u) /\ conv'[u] = INPUTTING_PARAMS) =>
              /\ HasSession(user_sessions', u)
              /\ LET session == user_sessions'[u]
                     names == ParamNames(session.model_id)
                 IN /\ session.params = EmptyFn
                    /\ session.task_id = 0
                    /\ session.image_input = -1
                    /\ session.image_urls = -1
                    /\ session.topup_amount = Zero
                    /\ session.has_image_input =
                          IF "prompt" \notin names THEN "absent"
                          ELSE IF names \cap ImageParams # {} THEN "True"
                          ELSE "False"]_vars

(* C15: the payment log stays consistent whatever happens: the ids are
   1..n without duplicates, a record once written is never overwritten or
   removed, and every payment written comes with exactly one credit of
   its amount to its user. *)
IsPrefix(a, b) == Len(a) <= Len(b) /\ \A i \in 1..Len(a) : b[i] = a[i]

C15_PaymentLogConsistent ==
    [][/\ \A i \in 1..Len(payments') : payments'[i].id = i
       /\ IsPrefix(payments, payments')
       /\ Len(payments') <= Len(payments) + 1
       /\ payments' # payments =>
             LET p == payments'[Len(payments')]
             IN balances' = [balances EXCEPT ![p.user_id] = FAdd(@, p.amount)]]_vars

(* C16: when a read or a write of a ledger file fails, the operation
   tells its caller and the stored ledger is as it was: no default stands
   in for the data that could not be read and no write that did not
   happen is reported as done. *)
FailedAccess(u) ==
    /\ inflight.user = u
    /\ \E io \in IoOutcomes \ {IoOk} : input_photo_credit(io)

C16_StorageFailureSurfaced ==
    [][\A u \in Chats : FailedAccess(u) =>
          /\ ledger' = ledger
          /\ reply' # "credited"
          /\ inflight'.at # "analysis_msg"]_vars

(* C17: when a call of the generation service fails, createTask
   answering with an error or a status poll answering not-ok, the job is
   given up in that step: the ledger is not charged and the session of
   the job's user is removed. *)
C17_ApiFailureAbandons ==
    [][/\ (\E raised \in 0..2 : create_task_result(FALSE, raised)) =>
             /\ ledger' = ledger
             /\ ~HasSession(user_sessions', inflight.user)
       /\ \A t \in Tasks : Observes(t, "not_ok") =>
             /\ ledger' = ledger
             /\ pollers'[t].pc = "done"
             /\ ~HasSession(user_sessions', pollers[t].user)]_vars

(* C18: a screenshot the verifier rejects while a payment screenshot is
   awaited changes no ledger file (no payment, no credit) and leaves the
   conversation waiting for the screenshot with the session, and so the
   amount, as it was: a later screenshot can still be accepted. *)
AwaitsScreenshot(u) ==
    /\ conv[u] = WAITING_PAYMENT_SCREENSHOT
    /\ HasSession(user_sessions, u)
    /\ user_sessions[u].waiting_for = "payment_screenshot"

C18_RejectionKeepsWaiting ==
    [][\A u \in Chats :
          (AwaitsScreenshot(u) /\ input_photo(u, "invalid")) =>
              /\ ledger' = ledger
              /\ inflight' = NoInflight
              /\ user_sessions' = user_sessions
              /\ AwaitsScreenshot(u)']_vars

C18_Witness ==
    \E u \in Chats :
        /\ reply = "rejected"
        /\ AwaitsScreenshot(u)
        /\ user_sessions[u].topup_amount = Float(75)

(* C19: a top-up session yields at most one payment and one credit.  An
   accepted screenshot adds exactly the session's amount to the user's
   balance, appends one payment of that amount and removes the session
   while the conversation ends, and the payment log and the balances
   change in no other step of the top-up flow: a further photo credits
   nothing. *)
Accepted(u) == inflight.user = u /\ inflight.at \in {"screenshot", "analysis_msg"}

C19_OneCreditPerTopup ==
    [][/\ \A u \in Chats :
             /\ (AwaitsScreenshot(u) /\ input_photo(u, "valid")) =>
                    /\ Accepted(u)'
                    /\ inflight'.at = "screenshot"
                    /\ inflight'.amount = user_sessions[u].topup_amount
                    /\ ledger' = ledger
             /\ (Accepted(u) /\ inflight.at = "screenshot" /\ inflight' # inflight) =>
                    /\ balances' = [balances EXCEPT ![u] = FAdd(@, inflight.amount)]
                    /\ payments' = Append(payments,
                          [id |-> Len(payments) + 1, user_id |-> u,
                           amount |-> inflight.amount, status |-> "completed"])
             /\ (Accepted(u) /\ inflight' = NoInflight) =>
                    /\ ~HasSession(user_sessions', u)
                    /\ HasSession(user_sessions, u) => conv'[u] = END
             /\ Accepted(u) =>
                    \A v \in Chats : conv'[v] # conv[v] => (v = u /\ inflight' = NoInflight)
       /\ (payments' # payments \/ balances' # balances) =>
             /\ inflight.at = "screenshot"
             /\ Len(payments') = Len(payments) + 1]_vars

C19_Witness ==
    \E u \in Chats :
        /\ reply = "credited"
        /\ ~HasSession(user_sessions, u)
        /\ conv[u] = END
        /\ Len(payments) > 0
        /\ payments[Len(payments)].user_id = u
        /\ payments[Len(payments)].amount = Float(75)
        /\ FGe(balances[u], Float(75))

(* C20: a text sent as the custom top-up amount is accepted exactly when
   it is a number between 50 and 50000; then the payment screenshot is
   awaited for that amount, and on any other text the conversation stays
   at the amount selection with the session unchanged. *)
AwaitsAmount(u) ==
    /\ conv[u] = SELECTING_AMOUNT
    /\ HasSession(user_sessions, u)
    /\ user_sessions[u].waiting_for = "topup_amount_input"

AmountInRange(text) ==
    /\ ~NotAFloat(text)
    /\ ~IsNaN(AmountOf(text))
    /\ FGe(AmountOf(text), Float(MinTopupRub))
    /\ FGe(Float(MaxTopupRub), AmountOf(text))

C20_CustomAmountInRange ==
    [][\A u \in Chats, text \in AmountTexts :
          (AwaitsAmount(u) /\ input_text(u, text)) =>
              IF AmountInRange(text)
              THEN /\ conv'[u] = WAITING_PAYMENT_SCREENSHOT
                   /\ user_sessions'[u].topup_amount = AmountOf(text)
              ELSE /\ conv'[u] = SELECTING_AMOUNT
                   /\ user_sessions' = user_sessions]_vars

(* C21: without the OCR capability every screenshot, whatever it shows
   and whatever amount is expected, is taken as valid and the whole
   amount of the session is credited. *)
SentWithoutOcr(u) ==
    \E ph \in BOOLEAN, shot \in Shots : input_screenshot(u, FALSE, ph, TRUE, shot)

C21_NoOcrCreditsFullAmount ==
    [][\A u \in Chats :
          /\ (AwaitsScreenshot(u) /\ SentWithoutOcr(u)) =>
                 /\ inflight'.user = u
                 /\ inflight'.at = "screenshot"
                 /\ ~inflight'.ocr
                 /\ inflight'.amount = user_sessions[u].topup_amount
          /\ (/\ inflight.user = u
              /\ inflight.at = "screenshot"
              /\ ~inflight.ocr
              /\ inflight' # inflight) =>
                 /\ HasSession(user_sessions, u) => reply' = "credited"
                 /\ balances' = [balances EXCEPT ![u] = FAdd(@, inflight.amount)]
                 /\ Len(payments') = Len(payments) + 1
                 /\ payments'[Len(payments')].amount = inflight.amount]_vars

C21_Witness ==
    \E u \in Chats :
        /\ reply = "credited"
        /\ Len(payments) > 0
        /\ payments[Len(payments)].user_id = u
        /\ payments[Len(payments)].amount = Float(100)
        /\ FGe(balances[u], Float(100))
        /\ ~HasSession(user_sessions, u)

(* C22: with OCR and no internal error the verdict is (amount matched or
   phone matched) and keywords present when a phone is expected, and
   amount matched and keywords present when none is; a text with neither
   a keyword nor a matching amount is never valid. *)
AmountMatched(shot, expected) == amount_found(shot.amounts, expected)

ValidityRule(shot, expected, phone_expected) ==
    IF phone_expected
    THEN (AmountMatched(shot, expected) \/ shot.phone) /\ shot.keywords
    ELSE AmountMatched(shot, expected) /\ shot.keywords

C22_ValidityRule ==
    [][\A u \in Chats, ph \in BOOLEAN, shot \in Shots :
          (/\ AwaitsScreenshot(u)
           /\ ~shot.raises
           /\ input_screenshot(u, TRUE, ph, TRUE, shot)) =>
              /\ (inflight'.user = u /\ inflight'.at = "screenshot") =
                     ValidityRule(shot, user_sessions[u].topup_amount, ph)
              /\ (~shot.keywords /\ ~AmountMatched(shot, user_sessions[u].topup_amount))
                     => (reply' = "rejected" /\ inflight' = NoInflight)]_vars

C22_Witness ==
    \E u \in Chats :
        /\ reply = "rejected"
        /\ AwaitsScreenshot(u)
        /\ user_sessions[u].topup_amount = Float(100)

(* C23: once a generation of a user has completed with success, that
   user's repeat request seeds a session with the generation's model, its
   schema and required list, and no collected value, and the form
   starts. *)
Completed(u) ==
    \E t \in DOMAIN pollers : pollers[t].user = u /\ pollers[t].successes > 0

C23_RepeatSeedsSession ==
    [][\A u \in Chats :
          (Completed(u) /\ generate_again(u)) =>
              /\ HasSession(user_sessions', u)
              /\ user_sessions'[u].model_id \in ModelIds
              /\ user_sessions'[u].has_params
              /\ user_sessions'[u].params = EmptyFn
              /\ conv'[u] = INPUTTING_PARAMS]_vars

(* C24: a credit of x to a user followed by a debit of x succeeds and
   leaves the user's balance exactly as it was, whatever the balance and
   the non-negative amount. *)
C24_CreditDebitRestores ==
    [][\A x \in FloatAmounts :
          ledger_credit_debit(OtherUser, x) =>
              /\ reply' = "True"
              /\ balances'[OtherUser] = balances[OtherUser]]_vars

(* C25: for every model id, known or not, and every parameter set the
   user price is twice the admin price, and a price always comes out: a
   model id outside the catalog is priced from the default base cost of
   one credit. *)
PricedIds == ModelIds \cup {"no-such-model", "absent", ""}

(* the price of the default base cost of one credit, for an admin *)
DefaultPrice == f64_mul(f64_mul(Float(1), CREDIT_TO_USD), USD_TO_RUB)

(* the admin prices of the catalog and of the default, each with its double *)
AdminPrices ==
    {calculate_price_rub(m, [k \in {"resolution"} |-> Scalar(res)], TRUE) :
        m \in PricedIds, res \in {"1K", "2K", "4K", "8K"}}
    \cup {calculate_price_rub(m, EmptyFn, TRUE) : m \in PricedIds}

Doubled == [price \in AdminPrices |-> f64_mul(price, Float(2))]

CatalogDoubles ==
    \A m \in PricedIds, res \in {"1K", "2K", "4K", "8K"} :
        LET p == [k \in {"resolution"} |-> Scalar(res)]
        IN /\ Doubled[calculate_price_rub(m, p, TRUE)] = calculate_price_rub(m, p, FALSE)
           /\ Doubled[calculate_price_rub(m, EmptyFn, TRUE)]
                 = calculate_price_rub(m, EmptyFn, FALSE)
           /\ m \notin ModelIds => calculate_price_rub(m, p, TRUE) = DefaultPrice

C25_UserPriceIsDouble ==
    /\ CatalogDoubles
    /\ \A u \in DOMAIN user_sessions :
          LET session == user_sessions[u]
              admin_price == calculate_price_rub(session.model_id, session.params, TRUE)
              user_price == calculate_price_rub(session.model_id, session.params, FALSE)
          IN /\ admin_price \in AdminPrices
             /\ admin_price # Zero
             /\ Doubled[admin_price] = user_price
             /\ session.model_id \notin ModelIds => admin_price = DefaultPrice

C25_Witness ==
    /\ HasSession(user_sessions, OtherUser)
    /\ user_sessions[OtherUser].model_id = "nano-banana-pro"
    /\ "resolution" \in DOMAIN user_sessions[OtherUser].params
    /\ calculate_price_rub("nano-banana-pro", user_sessions[OtherUser].params, FALSE)
          = Doubled[calculate_price_rub("nano-banana-pro",
                                        [k \in {"resolution"} |-> Scalar("4K")], TRUE)]
    /\ HasSession(user_sessions, ADMIN_ID)
    /\ user_sessions[ADMIN_ID].model_id = "absent"

(* C26: once a poller has observed success or fail for its task it makes
   no further status poll for that task, also when sending the result or
   the failure message raised. *)
SawTerminal(t) == pollers[t].successes + pollers[t].fails > 0

C26_TerminalStopsPolling ==
    [][\A t \in DOMAIN pollers :
          SawTerminal(t) => pollers'[t].attempt = pollers[t].attempt]_vars

(* C27: a timeout notice is sent only when the cap of polls was reached
   without a terminal state: a poller that observed success or fail sends
   none, and no poller sends more than one. *)
C27_TimeoutOnlyAtCap ==
    \A t \in DOMAIN pollers :
        /\ pollers[t].timeouts <= 1
        /\ SawTerminal(t) => pollers[t].timeouts = 0

(* C28: every poller ends after at most max_attempts status polls, whatever
   the API answers (results that are not ok, unknown states) and whichever
   sends raise. *)
C28_PollingTerminates ==
    /\ [](\A t \in DOMAIN pollers :
             /\ pollers[t].attempt <= max_attempts
             /\ pollers[t].attempt = max_attempts => pollers[t].pc # "sleep")
    /\ (pollers # <<>>) ~> (\A t \in DOMAIN pollers : pollers[t].pc = "done")

C28_Witness ==
    \E t \in DOMAIN pollers :
        /\ pollers[t].pc = "done"
        /\ pollers[t].attempt = max_attempts
        /\ pollers[t].successes + pollers[t].fails = 0
        /\ ~pollers[t].only_waiting
        /\ faults > 0

(* C29: in the delivery of a result, an artifact that loses delivery tiers,
   the last one (the bare URL sent as text) included, does not keep the
   artifacts after it from a delivery attempt: every artifact of the
   delivered list is attempted. *)
C29_EveryArtifactAttempted ==
    \A t \in DOMAIN pollers : pollers[t].attempted = Len(pollers[t].result_urls)

(* C30: for the model with the watermark switch the delivered list is the
   field the switch prefers, or the other field when the preferred one is
   empty, whichever field is preferred. *)
Preferred(p) ==
    IF p.remove_watermark = "True" THEN p.result_data.resultUrls
    ELSE p.result_data.resultWaterMarkUrls

Alternate(p) ==
    IF p.remove_watermark = "True" THEN p.result_data.resultWaterMarkUrls
    ELSE p.result_data.resultUrls

C30_FallbackBothWays ==
    \A t \in DOMAIN pollers :
        LET p == pollers[t]
            chosen == IF Preferred(p) # <<>> THEN Preferred(p) ELSE Alternate(p)
        IN p.remove_watermark # "None" /\ p.result_data # NoResultData =>
              /\ Len(p.result_urls) <= DeliveryLimit
              /\ \A i \in DOMAIN p.result_urls : p.result_urls[i] = chosen[i]
              /\ p.result_urls = <<>> => chosen = <<>>

(* C31: at the step of an enum-typed parameter a value is recorded only
   if the schema enumerates it; any other answer to the step, a text or a
   choice with another value, leaves the conversation at the step and the
   collected values as they were. *)
EnumStep(u) ==
    /\ conv[u] = INPUTTING_PARAMS
    /\ HasSession(user_sessions, u)
    /\ user_sessions[u].current_param \in ParamNames(user_sessions[u].model_id)
    /\ Len(ParamInfo(user_sessions[u].model_id, user_sessions[u].current_param).enum) > 0

SameStep(u) ==
    /\ conv'[u] = conv[u]
    /\ HasSession(user_sessions', u)
    /\ user_sessions'[u].params = user_sessions[u].params
    /\ user_sessions'[u].current_param = user_sessions[u].current_param

C31_EnumAnswersValidated ==
    [][\A u \in Users : EnumStep(u) =>
          LET n == user_sessions[u].current_param
              enum == SeqToSet(ParamInfo(user_sessions[u].model_id, n).enum)
          IN /\ \A x \in TextChoices : input_text(u, x) => SameStep(u)
             /\ \A c \in FormParams :
                   (c[1] = n /\ set_param(u, c[1], c[2])) =>
                       IF c[2] \in enum
                       THEN user_sessions'[u].params[n] = Scalar(c[2])
                       ELSE SameStep(u)]_vars

(* C32: the image list a session is filling never holds more than
   MaxImages entries: the photo that makes it MaxImages long commits the
   list to the collected parameters and ends the wait for images, and a
   photo sent when no image is awaited adds nothing. *)
ListsOf(session) ==
    {session.image_input, session.image_urls}
        \cup {session.params[k].n : k \in DOMAIN session.params \cap ImageParams}

C32_ImageListCapped ==
    /\ [](\A u \in DOMAIN user_sessions :
             \A n \in ListsOf(user_sessions[u]) : n <= MaxImages)
    /\ [][\A u \in DOMAIN user_sessions :
             input_photo(u, "valid") /\ conv[u] = INPUTTING_PARAMS =>
                LET session == user_sessions[u]
                    name == session.waiting_for
                IN IF name \in ImageParams
                   THEN ImageCount(session, name) = MaxImages - 1 =>
                           /\ user_sessions'[u].params[name] = ImgList(MaxImages)
                           /\ user_sessions'[u].waiting_for \notin ImageParams
                   ELSE /\ user_sessions'[u].image_input = session.image_input
                        /\ user_sessions'[u].image_urls = session.image_urls
                        /\ user_sessions'[u].params = session.params]_vars

(* C33: the conversation is at the confirmation only when every parameter
   the schema marks required, the prompt and a required image list
   included, has a collected value that is not empty, whatever texts and
   callback identifiers the user sent. *)
NonEmpty(v) == IF v.s = "list" THEN v.n > 0 ELSE v.s # ""

C33_ConfirmationHasRequired ==
    \A u \in DOMAIN user_sessions :
        conv[u] = CONFIRMING_GENERATION =>
            \A i \in DOMAIN RequiredList(user_sessions[u].model_id) :
                LET n == RequiredList(user_sessions[u].model_id)[i]
                IN /\ n \in DOMAIN user_sessions[u].params
                   /\ NonEmpty(user_sessions[u].params[n])

(* C34: the amount a successful task charges is the price of the model and
   parameters it was confirmed with, also when the user has opened another
   session since. *)
C34_ChargeIsConfirmedPrice ==
    [][\A t \in Tasks :
          (Observes(t, "success") /\ pollers'[t].charges = pollers[t].charges + 1) =>
              pollers'[t].charged = Append(pollers[t].charged, pollers[t].price)]_vars

(* C35: a poller that reaches a terminal state of task t removes the
   user's session only if it is the session that submitted t: a session
   opened afterwards (it does not carry t as its task id) is neither
   deleted nor altered by the poller's steps. *)
PollerSteps(t) ==
    \E r \in Responses, g \in BOOLEAN, sent \in NoticeCounts :
        poll_task_status(t, r, g, sent) \/ deliver_result(t, g, sent)

C35_PollerSparesLaterSession ==
    [][\A t \in Tasks :
          LET u == pollers[t].user
          IN (/\ PollerSteps(t)
              /\ HasSession(user_sessions, u)
              /\ user_sessions[u].task_id # t)
             => (/\ HasSession(user_sessions', u)
                 /\ user_sessions'[u] = user_sessions[u])]_vars

(* C36: the results of a successful task reach a regular user only if the
   debit for the task succeeded: a task whose debit was refused, the
   balance having fallen below the price after the confirmation, delivers
   nothing. *)
C36_NoUnpaidDelivery ==
    \A t \in Tasks :
        (pollers[t].refused /\ pollers[t].charges = 0) => pollers[t].delivered = 0

(* C37: a confirmed session leads to at most one createTask call: no
   confirm_generate event calls kie.create_task for a session from whose
   collected parameters a task was already created, whether the event
   arrives while the first is handled or after it. *)
C37_OneTaskPerConfirmation ==
    [][\A u \in Chats :
          (Idle /\ inflight'.at = "create_task" /\ inflight'.user = u)
              => ~SessionOf(user_sessions, u).submitted]_vars

(* C38: "add another", pressed under the reply to an accepted photo, keeps
   the images uploaded so far, so that the list "done" commits holds every
   accepted photo. *)
C38_AddAnotherKeepsImages ==
    [][\A u \in Chats :
          (MoreOffered(u) /\ add_image(u)) =>
              LET name == user_sessions[u].waiting_for
              IN ImageCount(user_sessions'[u], name) = ImageCount(user_sessions[u], name)]_vars

(* C39: every key of a session's collected parameters is a parameter name
   the schema of the selected model declares, whatever texts, photos and
   callback identifiers were sent. *)
C39_ParamsAreDeclared ==
    \A u \in DOMAIN user_sessions :
        DOMAIN user_sessions[u].params \subseteq ParamNames(user_sessions[u].model_id)

(* the payments recorded for a user, in the order of payments.json *)
PaymentsOf(pay, u) ==
    LET Mine(p) == p.user_id = u IN SelectSeq(pay, Mine)

(* C40: while a regular user is in the blocked set, no step records a
   top-up payment for them and no step submits a generation task for them,
   whichever entry point (topup_balance, topup_amount, topup_custom,
   confirm_generate) they use *)
C40_BlockedUserDoesNothing ==
    [][\A u \in Users :
          (RegularUser(u) /\ is_user_blocked(blocked, u)) =>
              /\ PaymentsOf(payments', u) = PaymentsOf(payments, u)
              /\ ~(/\ inflight.at # "create_task"
                    /\ inflight'.at = "create_task"
                    /\ inflight'.user = u)
              /\ \A t \in DOMAIN pollers' \ DOMAIN pollers :
                     pollers'[t].user # u]_vars

(* the refusal of C2 for a regular user and for a limited admin *)
C2_WitnessRegular == C2_Witness /\ \E u \in Chats : RegularUser(u)
C2_WitnessLimited == C2_Witness /\ Chats \subseteq LimitedAdmins

====
